---- MODULE Spec2Model ----
(***************************************************************************)
(* A model of the wit-parser data model (crates/wit-parser/src/lib.rs):    *)
(* world keys and their async-stripped equality, package versions and      *)
(* their semver compatibility track, and the arenas of a resolved graph    *)
(* with the operations that build, merge and clone it.                     *)
(*                                                                         *)
(* Strings whose characters matter (kebab names) are sequences of          *)
(* one-character strings, so that strip_prefix is computed, not assumed.   *)
(***************************************************************************)
EXTENDS Integers, Sequences, FiniteSets, TLC

VARIABLES
    ka, kb, keq,                 \* two world keys and <<ka == kb>> once evaluated
    khash, kmap,                 \* their hashes, and a hash map both were inserted into
    tv1, tv2, tr1, tr2,          \* two versions and their compatibility tracks
    wimports, wexports, wstate,  \* a world under assembly
    wlast,                       \* the entry of the last insert and its map
    resolve, resolve2,           \* a graph and, when cloned, its clone
    op, result, prev,            \* the last operation, its outcome, the graph before it
    error,                       \* the error of the last operation, when it carries one
    cases, disc,                 \* a case count and its discriminant type
    nflags, repr,                \* a flag count and its representation
    sa, sb, sc, scmp,            \* three stabilities and their pairwise comparisons
    features, all_features,      \* the feature configuration of a Resolve
    visible,                     \* whether sa is included under the configuration
    fname, iface, mangling,      \* a function name, its interface, a mangling
    abi, mabi,                   \* a LiftLowerAbi and a ManglingAndAbi
    export_name, prefixes, synced, \* what the naming functions returned
    ftypes, fparams, fresult,    \* a types arena and a signature over it
    futures,                     \* the futures and streams found in the signature
    pname, shown,                \* a package name and what Display wrote for it
    idecls, iworlds, istate,     \* declared worlds, their expansion, its progress
    rfunc, rorigin, rlast, rprev \* an encoder ResourceFunc, how it was made, the last
                                 \* call on it and its value before that call

keyVars == <<ka, kb, keq, khash, kmap>>
trackVars == <<tv1, tv2, tr1, tr2>>
worldVars == <<wimports, wexports, wstate, wlast>>
graphVars == <<resolve, resolve2, op, result, prev, error>>
reprVars == <<cases, disc, nflags, repr>>
stabVars == <<sa, sb, sc, scmp, features, all_features, visible>>
abiVars == <<fname, iface, mangling, abi, mabi, export_name, prefixes, synced>>
futVars == <<ftypes, fparams, fresult, futures>>
derivVars == <<reprVars, stabVars, abiVars, futVars>>
nameVars == <<pname, shown>>
inclVars == <<idecls, iworlds, istate>>
encVars == <<rfunc, rorigin, rlast, rprev>>
restVars == <<nameVars, inclVars, encVars>>
vars == <<ka, kb, keq, khash, kmap,
          tv1, tv2, tr1, tr2, wimports, wexports, wstate, wlast,
          resolve, resolve2, op, result, prev, error,
          cases, disc, nflags, repr,
          sa, sb, sc, scmp, features, all_features, visible,
          fname, iface, mangling, abi, mabi, export_name, prefixes, synced,
          ftypes, fparams, fresult, futures,
          pname, shown, idecls, iworlds, istate,
          rfunc, rorigin, rlast, rprev>>

----------------------------------------------------------------------------
(* Strings *)

AsyncPrefix == <<"[", "a", "s", "y", "n", "c", "]">>
Foo == <<"f", "o", "o">>
Bar == <<"b", "a", "r">>
AsyncFoo == AsyncPrefix \o Foo
AsyncBar == AsyncPrefix \o Bar
AsyncAsyncFoo == AsyncPrefix \o AsyncFoo
\* "[asyncfoo": the marker without its closing bracket
NearAsyncFoo == <<"[", "a", "s", "y", "n", "c">> \o Foo
\* "foo[async]": the marker as a suffix
FooAsync == Foo \o AsyncPrefix

\* str::starts_with
StartsWith(s, p) ==
    /\ Len(s) >= Len(p)
    /\ SubSeq(s, 1, Len(p)) = p

\* str::strip_prefix, with the Option unwrapped by the caller
StripPrefix(s, p) == SubSeq(s, Len(p) + 1, Len(s))

----------------------------------------------------------------------------
(* WorldKey and KebabDedupe *)

NoId == 0 - 1

Name(s) == [tag |-> "Name", name |-> s, id |-> NoId]
InterfaceKey(i) == [tag |-> "Interface", name |-> <<>>, id |-> i]

\* A KebabDedupe that forgets to strip the marker.
KebabDedupeNoStrip(s) == [tag |-> "Normal", s |-> s]

\* impl From<&str> for KebabDedupe
KebabDedupeFrom(s) ==
    IF StartsWith(s, AsyncPrefix)
    THEN [tag |-> "Normal", s |-> StripPrefix(s, AsyncPrefix)]
    ELSE [tag |-> "Normal", s |-> s]

\* A derived WorldKey equality: the names are compared as they are.
WorldKeyEqRaw(a, b) ==
    CASE a.tag = "Name" /\ b.tag = "Name" -> a.name = b.name
      [] a.tag = "Name" -> FALSE
      [] a.tag = "Interface" /\ b.tag = "Interface" -> a.id = b.id
      [] OTHER -> FALSE

\* A WorldKey equality where an interface key equals any name.
WorldKeyEqLoose(a, b) ==
    IF a.tag = "Name" /\ b.tag = "Name"
    THEN KebabDedupeFrom(a.name) = KebabDedupeFrom(b.name)
    ELSE IF a.tag = "Interface" /\ b.tag = "Interface"
    THEN a.id = b.id
    ELSE a.tag = "Interface"

\* impl PartialEq for WorldKey
WorldKeyEq(a, b) ==
    CASE a.tag = "Name" /\ b.tag = "Name" ->
            KebabDedupeFrom(a.name) = KebabDedupeFrom(b.name)
      [] a.tag = "Name" -> FALSE
      [] a.tag = "Interface" /\ b.tag = "Interface" -> a.id = b.id
      [] OTHER -> FALSE

\* A WorldKey hash that feeds the name as it is written.
HashWorldKeyRaw(k) ==
    IF k.tag = "Name"
    THEN [disc |-> 0, str |-> k.name, id |-> NoId]
    ELSE [disc |-> 1, str |-> <<>>, id |-> k.id]

\* impl Hash for WorldKey: what is fed to the hasher, 0u8 and the deduped
\* name or 1u8 and the interface id.  Equal feeds give equal hashes.
HashWorldKey(k) ==
    IF k.tag = "Name"
    THEN [disc |-> 0, str |-> KebabDedupeFrom(k.name).s, id |-> NoId]
    ELSE [disc |-> 1, str |-> <<>>, id |-> k.id]

\* the slot of key k in a hash-indexed map: the entry with the hash of k whose
\* key equals k, 0 when there is none
HashSlot(m, k) ==
    LET S == {i \in 1..Len(m) :
                /\ HashWorldKey(m[i].key) = HashWorldKey(k)
                /\ WorldKeyEq(m[i].key, k)}
    IN IF S = {} THEN 0 ELSE CHOOSE i \in S : \A j \in S : i <= j

\* IndexMap::insert through the hash index: the value of a present key is
\* replaced, under the key first inserted; a new key is appended
HashMapInsert(m, k, v) ==
    IF HashSlot(m, k) # 0
    THEN [m EXCEPT ![HashSlot(m, k)] = [key |-> m[HashSlot(m, k)].key, item |-> v]]
    ELSE Append(m, [key |-> k, item |-> v])

MaxKeyId == 2

KeyNames == {Foo, Bar, AsyncFoo, AsyncBar, AsyncAsyncFoo, AsyncPrefix, <<>>,
             NearAsyncFoo, FooAsync}

KeySet == {Name(s) : s \in KeyNames} \cup {InterfaceKey(i) : i \in 0..MaxKeyId}

NoResult == "none"

InitKey ==
    /\ ka \in KeySet
    /\ kb \in KeySet
    /\ keq = <<>>
    /\ khash = <<>>
    /\ kmap = <<>>

IdleKey ==
    /\ ka = Name(<<>>)
    /\ kb = Name(<<>>)
    /\ keq = <<>>
    /\ khash = <<>>
    /\ kmap = <<>>

\* evaluates ka == kb
CompareKeys ==
    /\ keq = <<>>
    /\ keq' = <<WorldKeyEq(ka, kb)>>
    /\ UNCHANGED <<ka, kb, khash, kmap>>
    /\ UNCHANGED <<trackVars, worldVars, graphVars, derivVars, restVars>>

\* hashes ka and kb
HashKeys ==
    /\ khash = <<>>
    /\ khash' = <<[a |-> HashWorldKey(ka), b |-> HashWorldKey(kb)]>>
    /\ UNCHANGED <<ka, kb, keq, kmap>>
    /\ UNCHANGED <<trackVars, worldVars, graphVars, derivVars, restVars>>

\* inserts ka and then kb into an empty map
InsertKeys ==
    /\ kmap = <<>>
    /\ kmap' = <<HashMapInsert(HashMapInsert(<<>>, ka, "first"), kb, "second")>>
    /\ UNCHANGED <<ka, kb, keq, khash>>
    /\ UNCHANGED <<trackVars, worldVars, graphVars, derivVars, restVars>>

----------------------------------------------------------------------------
(* semver::Version and PackageName::version_compat_track *)

MaxVer == 2

NoPre == ""
NoBuild == ""

Version(ma, mi, pa, pre, build) ==
    [major |-> ma, minor |-> mi, patch |-> pa, pre |-> pre, build |-> build]

V(ma, mi, pa) == Version(ma, mi, pa, NoPre, NoBuild)

NoVersion == Version(0 - 1, 0 - 1, 0 - 1, NoPre, NoBuild)

VersionSet ==
    {Version(ma, mi, pa, pre, build) :
        ma \in 0..MaxVer, mi \in 0..MaxVer, pa \in 0..MaxVer,
        pre \in {NoPre, "alpha"}, build \in {NoBuild, "b1"}}

\* A track that keeps the minor version of a major != 0 version.
VersionCompatTrackKeepMinor(version) ==
    LET v == [version EXCEPT !.build = NoBuild] IN
    IF v.pre # NoPre THEN v
    ELSE IF v.major # 0 THEN [v EXCEPT !.patch = 0]
    ELSE IF v.minor # 0 THEN [v EXCEPT !.patch = 0]
    ELSE v

\* A track that leaves the build metadata of a version in place.
VersionCompatTrackKeepBuild(version) ==
    LET v == version IN
    IF v.pre # NoPre THEN v
    ELSE IF v.major # 0 THEN [v EXCEPT !.minor = 0, !.patch = 0]
    ELSE IF v.minor # 0 THEN [v EXCEPT !.patch = 0]
    ELSE v

\* PackageName::version_compat_track
VersionCompatTrack(version) ==
    LET v == [version EXCEPT !.build = NoBuild] IN
    IF v.pre # NoPre THEN v
    ELSE IF v.major # 0 THEN [v EXCEPT !.minor = 0, !.patch = 0]
    ELSE IF v.minor # 0 THEN [v EXCEPT !.patch = 0]
    ELSE v

InitTrack ==
    /\ tv1 \in VersionSet
    /\ tv2 \in VersionSet
    /\ tr1 = NoVersion
    /\ tr2 = NoVersion

IdleTrack ==
    /\ tv1 = NoVersion
    /\ tv2 = NoVersion
    /\ tr1 = NoVersion
    /\ tr2 = NoVersion

\* computes the tracks of both versions
ComputeTracks ==
    /\ tr1 = NoVersion
    /\ tr1' = VersionCompatTrack(tv1)
    /\ tr2' = VersionCompatTrack(tv2)
    /\ UNCHANGED <<tv1, tv2>>
    /\ UNCHANGED <<keyVars, worldVars, graphVars, derivVars, restVars>>

----------------------------------------------------------------------------
(* Types, functions and world items *)

Prim(p) == [prim |-> p, id |-> NoId]
TId(i) == [prim |-> "id", id |-> i]

\* struct Function, with the fields the world maps look at
Func(name, kind, res) == [name |-> name, kind |-> kind, result |-> res]
NoFunc == Func(<<>>, "none", Prim("none"))

\* a freestanding function named s: async exactly when the name carries the marker
FuncNamed(s, res) ==
    Func(s, IF StartsWith(s, AsyncPrefix) THEN "AsyncFreestanding" ELSE "Freestanding",
         res)

\* enum WorldItem
InterfaceItem(i) == [tag |-> "Interface", id |-> i, func |-> NoFunc]
FunctionItem(f) == [tag |-> "Function", id |-> NoId, func |-> f]
TypeItem(t) == [tag |-> "Type", id |-> t, func |-> NoFunc]

Entry(k, v) == [key |-> k, item |-> v]

----------------------------------------------------------------------------
(* IndexMap<WorldKey, WorldItem>: a sequence of entries in insertion order *)

\* IndexMap::contains_key, under WorldKey's Eq
ContainsKey(m, k) == \E i \in 1..Len(m) : WorldKeyEq(m[i].key, k)

\* IndexMap::get_index_of
IndexOfKey(m, k) == CHOOSE i \in 1..Len(m) : WorldKeyEq(m[i].key, k)

\* IndexMap::insert: an equal key keeps its slot and its stored key, the value
\* is replaced; a new key is appended
IndexMapInsert(m, k, v) ==
    IF ContainsKey(m, k)
    THEN [m EXCEPT ![IndexOfKey(m, k)].item = v]
    ELSE Append(m, Entry(k, v))

\* The assembly's insert into a world's imports or exports: a key that collides
\* with a present key is an error, checked on every insert.
TryInsert(m, k, v) ==
    IF ContainsKey(m, k)
    THEN [ok |-> FALSE, map |-> m]
    ELSE [ok |-> TRUE, map |-> IndexMapInsert(m, k, v)]

\* The dedup rule of a finished map: no two entries name the same item once a
\* leading "[async]" is stripped, and no interface is keyed twice.
StripAsync(s) == IF StartsWith(s, AsyncPrefix) THEN StripPrefix(s, AsyncPrefix) ELSE s

DedupOk(m) ==
    \A i, j \in 1..Len(m) :
        i # j =>
            \/ m[i].key.tag # m[j].key.tag
            \/ /\ m[i].key.tag = "Name"
               /\ StripAsync(m[i].key.name) # StripAsync(m[j].key.name)
            \/ /\ m[i].key.tag = "Interface"
               /\ m[i].key.id # m[j].key.id

----------------------------------------------------------------------------
(* Assembly of one world, insert by insert *)

MaxItems == 3

AssemblyNames == {Foo, AsyncFoo, Bar}

\* what a world declaration can import or export
AssemblyEntries ==
    {Entry(Name(s), FunctionItem(FuncNamed(s, Prim("u32")))) : s \in AssemblyNames}
    \cup {Entry(InterfaceKey(i), InterfaceItem(i)) : i \in 0..1}

NoLast == [side |-> "none", key |-> Name(<<>>)]

InitWorld ==
    /\ wimports = <<>>
    /\ wexports = <<>>
    /\ wstate = "building"
    /\ wlast = NoLast

IdleWorld ==
    /\ wimports = <<>>
    /\ wexports = <<>>
    /\ wstate = "idle"
    /\ wlast = NoLast

InsertImport ==
    /\ wstate = "building"
    /\ Len(wimports) + Len(wexports) < MaxItems
    /\ \E e \in AssemblyEntries :
        LET r == TryInsert(wimports, e.key, e.item) IN
        /\ wimports' = r.map
        /\ wstate' = IF r.ok THEN "building" ELSE "failed"
        /\ wlast' = [side |-> "import", key |-> e.key]
    /\ UNCHANGED wexports
    /\ UNCHANGED <<keyVars, trackVars, graphVars, derivVars, restVars>>

InsertExport ==
    /\ wstate = "building"
    /\ Len(wimports) + Len(wexports) < MaxItems
    /\ \E e \in AssemblyEntries :
        LET r == TryInsert(wexports, e.key, e.item) IN
        /\ wexports' = r.map
        /\ wstate' = IF r.ok THEN "building" ELSE "failed"
        /\ wlast' = [side |-> "export", key |-> e.key]
    /\ UNCHANGED wimports
    /\ UNCHANGED <<keyVars, trackVars, graphVars, derivVars, restVars>>

FinishWorld ==
    /\ wstate = "building"
    /\ wstate' = "done"
    /\ UNCHANGED <<wimports, wexports, wlast>>
    /\ UNCHANGED <<keyVars, trackVars, graphVars, derivVars, restVars>>

----------------------------------------------------------------------------
(* Resolve: the arenas of a graph. A handle is an index counted from 0. *)

\* Resolve::default()
EmptyResolve == [packages |-> <<>>, interfaces |-> <<>>, types |-> <<>>, worlds |-> <<>>]

\* Option<Resolve>
NoGraph == <<>>
Some(g) == <<g>>

\* Arena indexing by handle
At(arena, id) == arena[id + 1]
Ids(arena) == 0..(Len(arena) - 1)

\* struct PackageName
PackageName(ns, n, v) == [namespace |-> ns, name |-> n, version |-> v]

\* enum TypeDefKind: the variant and the types it refers to, in order
Kind(tag, tys) == [tag |-> tag, tys |-> tys]

\* enum TypeOwner
OwnerWorld(w) == [tag |-> "World", id |-> w]
OwnerInterface(i) == [tag |-> "Interface", id |-> i]
OwnerNone == [tag |-> "None", id |-> NoId]

\* struct TypeDef
TypeDef(name, kind, owner) == [name |-> name, kind |-> kind, owner |-> owner]

\* struct Interface
Interface(name, package, types) == [name |-> name, package |-> package, types |-> types]

\* struct World
World(name, imports, exports, package) ==
    [name |-> name, imports |-> imports, exports |-> exports, package |-> package,
     includes |-> <<>>, include_names |-> <<>>]

\* the handles a type definition refers to
TypeRefs(td) == {td.kind.tys[i].id : i \in {j \in 1..Len(td.kind.tys) : td.kind.tys[j].prim = "id"}}

----------------------------------------------------------------------------
(* semver::Version's order, on the versions of the model *)

VersionLess(a, b) ==
    \/ a.major < b.major
    \/ a.major = b.major /\ a.minor < b.minor
    \/ a.major = b.major /\ a.minor = b.minor /\ a.patch < b.patch
    \/ /\ a.major = b.major /\ a.minor = b.minor /\ a.patch = b.patch
       /\ \/ a.pre # NoPre /\ b.pre = NoPre
          \/ a.pre = b.pre /\ a.build = NoBuild /\ b.build # NoBuild

----------------------------------------------------------------------------
(* UnresolvedPackage: what the parser hands over for one package *)

\* the items a world declaration lists
Dep(v) == [sym |-> "dep", v |-> v, name |-> <<>>]
Fn(s) == [sym |-> "fn", v |-> NoVersion, name |-> s]
Ty == [sym |-> "type", v |-> NoVersion, name |-> <<"t">>]

\* the versions of the foreign interfaces a declaration names, each once, in
\* the order of their first use
RECURSIVE DepList(_)
DepList(syms) ==
    IF syms = <<>> THEN <<>>
    ELSE LET rest == DepList(SubSeq(syms, 1, Len(syms) - 1))
             x == syms[Len(syms)]
         IN IF x.sym = "dep" /\ ~\E i \in 1..Len(rest) : rest[i] = x.v
            THEN Append(rest, x.v)
            ELSE rest

LocalIface(deps, v) == (CHOOSE i \in 1..Len(deps) : deps[i] = v) - 1

\* the world-map entry of one declared item
DeclEntry(x, deps, tyId) ==
    CASE x.sym = "dep" ->
            Entry(InterfaceKey(LocalIface(deps, x.v)), InterfaceItem(LocalIface(deps, x.v)))
      [] x.sym = "fn" -> Entry(Name(x.name), FunctionItem(FuncNamed(x.name, Prim("u32"))))
      [] OTHER -> Entry(Name(x.name), TypeItem(tyId))

\* the assembly of a map from its entries, one checked insert after another
RECURSIVE Assemble(_)
Assemble(entries) ==
    IF entries = <<>> THEN [ok |-> TRUE, map |-> <<>>]
    ELSE LET before == Assemble(SubSeq(entries, 1, Len(entries) - 1))
             e == entries[Len(entries)]
         IN IF before.ok THEN TryInsert(before.map, e.key, e.item) ELSE before

\* An unresolved package that lists a handle before the resource it refers to.
IoPackageHandleFirst(v) ==
    [name |-> PackageName("wasi", "io", v),
     interfaces |-> <<Interface("poll", NoId, <<1>>)>>,
     types |-> <<TypeDef("", Kind("Own", <<TId(1)>>), OwnerNone),
                 TypeDef("pollable", Kind("Resource", <<>>), OwnerInterface(0))>>,
     worlds |-> <<>>,
     foreign_deps |-> <<>>,
     ok |-> TRUE]

\* package wasi:io@v { interface poll { resource pollable; } } with an
\* own<pollable>: the types in topological order
IoPackage(v) ==
    [name |-> PackageName("wasi", "io", v),
     interfaces |-> <<Interface("poll", NoId, <<0>>)>>,
     types |-> <<TypeDef("pollable", Kind("Resource", <<>>), OwnerInterface(0)),
                 TypeDef("", Kind("Own", <<TId(0)>>), OwnerNone)>>,
     worlds |-> <<>>,
     foreign_deps |-> <<>>,
     ok |-> TRUE]

\* package app:main { world w { import wasi:io/poll@v; import foo: func() -> u32;
\* export ...; } }: one placeholder interface and one Unknown type per foreign
\* interface, then a borrow of the first foreign type and, when a type is
\* exported, its alias; ok is false when the world's assembly fails
AppPackage(imports, exports) ==
    LET deps == DepList(imports \o exports)
        n == Len(deps)
        tyId == IF n > 0 THEN n + 1 ELSE 0
        hasTy == \E i \in 1..Len(exports) : exports[i].sym = "type"
        imp == Assemble([i \in 1..Len(imports) |-> DeclEntry(imports[i], deps, tyId)])
        exp == Assemble([i \in 1..Len(exports) |-> DeclEntry(exports[i], deps, tyId)])
    IN
    [name |-> PackageName("app", "main", NoVersion),
     interfaces |-> [i \in 1..n |-> Interface("poll", NoId, <<i - 1>>)],
     types |-> [i \in 1..n |-> TypeDef("pollable", Kind("Unknown", <<>>), OwnerInterface(i - 1))]
               \o (IF n > 0 THEN <<TypeDef("", Kind("Borrow", <<TId(0)>>), OwnerNone)>> ELSE <<>>)
               \o (IF hasTy
                   THEN <<TypeDef("t", Kind("Type", <<IF n > 0 THEN TId(n) ELSE Prim("u32")>>),
                                  OwnerWorld(0))>>
                   ELSE <<>>),
     worlds |-> <<World("w", imp.map, exp.map, NoId)>>,
     foreign_deps |-> [i \in 1..n |->
                        [package |-> PackageName("wasi", "io", deps[i]),
                         interface |-> "poll", id |-> i - 1]],
     ok |-> imp.ok /\ exp.ok]

----------------------------------------------------------------------------
(* Resolve::push: foreign dependency resolution of one unresolved package *)

SameTrack(a, b) == VersionCompatTrack(a) = VersionCompatTrack(b)

\* the packages of g that a request can resolve to: the one of that exact
\* name, else those of the same namespace and name on the same track
ExactMatches(g, req) == {p \in Ids(g.packages) : At(g.packages, p).name = req}

CompatMatches(g, req) ==
    {p \in Ids(g.packages) :
        LET pn == At(g.packages, p).name IN
        /\ pn.namespace = req.namespace
        /\ pn.name = req.name
        /\ pn.version # NoVersion
        /\ req.version # NoVersion
        /\ SameTrack(pn.version, req.version)}

Min(S) == CHOOSE x \in S : \A y \in S : x <= y

FindPackage(g, req) ==
    IF ExactMatches(g, req) # {} THEN Min(ExactMatches(g, req))
    ELSE IF CompatMatches(g, req) # {} THEN Min(CompatMatches(g, req))
    ELSE NoId

\* the interface of package p with that name
FindInterface(g, p, name) ==
    LET S == {i \in Ids(g.interfaces) :
                At(g.interfaces, i).package = p /\ At(g.interfaces, i).name = name}
    IN IF S = {} THEN NoId ELSE Min(S)

\* the type of interface i with that name
FindType(g, i, name) ==
    LET S == {t \in Ids(g.types) :
                /\ At(g.types, t).name = name
                /\ At(g.types, t).owner = OwnerInterface(i)}
    IN IF S = {} THEN NoId ELSE Min(S)

RemapType(ty, tmap) == IF ty.prim = "id" THEN TId(tmap[ty.id]) ELSE ty

RemapOwner(o, imap, wmap) ==
    CASE o.tag = "Interface" -> OwnerInterface(imap[o.id])
      [] o.tag = "World" -> OwnerWorld(wmap[o.id])
      [] OTHER -> o

RemapTypeDef(td, imap, tmap, wmap) ==
    TypeDef(td.name,
            Kind(td.kind.tag, [i \in 1..Len(td.kind.tys) |-> RemapType(td.kind.tys[i], tmap)]),
            RemapOwner(td.owner, imap, wmap))

RemapKey(k, imap) == IF k.tag = "Interface" THEN InterfaceKey(imap[k.id]) ELSE k

RemapItem(it, imap, tmap) ==
    CASE it.tag = "Interface" -> InterfaceItem(imap[it.id])
      [] it.tag = "Type" -> TypeItem(tmap[it.id])
      [] OTHER ->
            FunctionItem(Func(it.func.name, it.func.kind, RemapType(it.func.result, tmap)))

RemapMap(m, imap, tmap) ==
    [i \in 1..Len(m) |-> Entry(RemapKey(m[i].key, imap), RemapItem(m[i].item, imap, tmap))]

\* The resolution of unresolved package u against graph g. Foreign placeholder
\* interfaces and Unknown types map to the items of the package found; the
\* rest is appended in order. The world maps are rebuilt by checked inserts.
Push(g, u) ==
    LET deps == u.foreign_deps
        found == [i \in 1..Len(deps) |-> FindPackage(g, deps[i].package)]
        missing == {i \in 1..Len(deps) : found[i] = NoId}
        isForeign(i) == \E d \in 1..Len(deps) : deps[d].id = i
        depOf(i) == CHOOSE d \in 1..Len(deps) : deps[d].id = i
        pkgId == Len(g.packages)
        imap == [i \in Ids(u.interfaces) |->
                    IF isForeign(i)
                    THEN FindInterface(g, found[depOf(i)], deps[depOf(i)].interface)
                    ELSE Len(g.interfaces)
                         + Cardinality({j \in 0..(i - 1) : ~isForeign(j)})]
        isUnknown(t) == At(u.types, t).kind.tag = "Unknown"
        tmap == [t \in Ids(u.types) |->
                    IF isUnknown(t)
                    THEN FindType(g, imap[At(u.types, t).owner.id], At(u.types, t).name)
                    ELSE Len(g.types)
                         + Cardinality({j \in 0..(t - 1) : ~isUnknown(j)})]
        wmap == [w \in Ids(u.worlds) |-> Len(g.worlds) + w]
        newIfaces == SelectSeq([i \in 1..Len(u.interfaces) |-> i - 1],
                               LAMBDA i : ~isForeign(i))
        newTypes == SelectSeq([t \in 1..Len(u.types) |-> t - 1],
                              LAMBDA t : ~isUnknown(t))
        imps == [w \in 1..Len(u.worlds) |-> Assemble(RemapMap(u.worlds[w].imports, imap, tmap))]
        exps == [w \in 1..Len(u.worlds) |-> Assemble(RemapMap(u.worlds[w].exports, imap, tmap))]
    IN
    IF ~u.ok THEN [ok |-> FALSE, err |-> "syntax", graph |-> g]
    ELSE IF missing # {}
    THEN [ok |-> FALSE, err |-> "package-not-found", graph |-> g]
    ELSE IF \E w \in 1..Len(u.worlds) : ~imps[w].ok \/ ~exps[w].ok
    THEN [ok |-> FALSE, err |-> "semantic", graph |-> g]
    ELSE [ok |-> TRUE, err |-> "",
          graph |->
            [packages |-> Append(g.packages, [name |-> u.name]),
             interfaces |-> g.interfaces \o
                [k \in 1..Len(newIfaces) |->
                    LET it == At(u.interfaces, newIfaces[k]) IN
                    Interface(it.name, pkgId, [x \in 1..Len(it.types) |-> tmap[it.types[x]]])],
             types |-> g.types \o
                [k \in 1..Len(newTypes) |->
                    RemapTypeDef(At(u.types, newTypes[k]), imap, tmap, wmap)],
             worlds |-> g.worlds \o
                [w \in 1..Len(u.worlds) |->
                    World(u.worlds[w].name, imps[w].map, exps[w].map, pkgId)]]]

----------------------------------------------------------------------------
(* Display of package names and of the package-not-found error *)

\* the characters of the identifiers the model writes as atoms
IdentChars(x) ==
    CASE x = "wasi" -> <<"w", "a", "s", "i">>
      [] x = "io" -> <<"i", "o">>
      [] x = "app" -> <<"a", "p", "p">>
      [] x = "main" -> <<"m", "a", "i", "n">>
      [] x = "alpha" -> <<"a", "l", "p", "h", "a">>
      [] x = "b1" -> <<"b", "1">>
      [] OTHER -> <<>>

DigitChar(d) == <<"0", "1", "2", "3", "4", "5", "6", "7", "8", "9">>[d + 1]

\* Display of an unsigned integer: its decimal digits
RECURSIVE DecimalDigits(_)
DecimalDigits(n) ==
    IF n < 10 THEN <<DigitChar(n)>>
    ELSE Append(DecimalDigits(n \div 10), DigitChar(n % 10))

\* Display of semver::Version: major.minor.patch, -pre and +build when present
DisplayVersion(v) ==
    DecimalDigits(v.major) \o <<".">> \o DecimalDigits(v.minor) \o <<".">>
    \o DecimalDigits(v.patch)
    \o (IF v.pre # NoPre THEN <<"-">> \o IdentChars(v.pre) ELSE <<>>)
    \o (IF v.build # NoBuild THEN <<"+">> \o IdentChars(v.build) ELSE <<>>)

\* A Display that writes the '@' of the version for every package name.
DisplayPackageNameAlwaysAt(pn) ==
    IdentChars(pn.namespace) \o <<":">> \o IdentChars(pn.name) \o <<"@">>
    \o (IF pn.version # NoVersion THEN DisplayVersion(pn.version) ELSE <<>>)

\* impl fmt::Display for PackageName
DisplayPackageName(pn) ==
    IdentChars(pn.namespace) \o <<":">> \o IdentChars(pn.name)
    \o (IF pn.version # NoVersion THEN <<"@">> \o DisplayVersion(pn.version) ELSE <<>>)

\* the literals of impl fmt::Display for PackageNotFoundError
PackageQuote ==
    <<"p", "a", "c", "k", "a", "g", "e", " ", "'">>
NotFoundNoKnown ==
    <<"'", " ", "n", "o", "t", " ", "f", "o", "u", "n", "d", ".", " ",
      "n", "o", " ", "k", "n", "o", "w", "n", " ", "p", "a", "c",
      "k", "a", "g", "e", "s", ".">>
NotFoundKnown ==
    <<"'", " ", "n", "o", "t", " ", "f", "o", "u", "n", "d", ".", " ",
      "k", "n", "o", "w", "n", " ", "p", "a", "c", "k", "a", "g",
      "e", "s", ":", "\n">>
KnownIndent == <<" ", " ", " ", " ">>
NewLine == <<"\n">>

\* PackageNotFoundError::new; the span is left out
PackageNotFoundErrorNew(requested, known) ==
    [requested |-> requested, known |-> known, highlighted |-> <<>>]

\* the lines of the known packages
RECURSIVE KnownLines(_)
KnownLines(known) ==
    IF known = <<>> THEN <<>>
    ELSE KnownIndent \o DisplayPackageName(Head(known)) \o NewLine
         \o KnownLines(Tail(known))

\* impl fmt::Display for PackageNotFoundError
DisplayPackageNotFound(e) ==
    IF e.highlighted # <<>> THEN e.highlighted[1]
    ELSE IF e.known = <<>>
    THEN PackageQuote \o DisplayPackageName(e.requested) \o NotFoundNoKnown
    ELSE PackageQuote \o DisplayPackageName(e.requested) \o NotFoundKnown
         \o KnownLines(e.known)

NoError == <<>>

\* the names of the packages of a graph, in arena order
KnownPackages(g) == [i \in 1..Len(g.packages) |-> g.packages[i].name]

\* the foreign dependencies of u with no match in g
MissingDeps(g, u) ==
    SelectSeq(u.foreign_deps, LAMBDA d : FindPackage(g, d.package) = NoId)

\* A package-not-found error that leaves the known packages out.
PushErrorNoKnown(g, u) ==
    IF u.ok /\ MissingDeps(g, u) # <<>>
    THEN LET e == PackageNotFoundErrorNew(MissingDeps(g, u)[1].package, <<>>)
         IN <<[err |-> e, message |-> DisplayPackageNotFound(e)]>>
    ELSE NoError

\* the error a failed push carries when a foreign package is missing, with
\* the message it is reported with
PushError(g, u) ==
    IF u.ok /\ MissingDeps(g, u) # <<>>
    THEN LET e == PackageNotFoundErrorNew(MissingDeps(g, u)[1].package,
                                          KnownPackages(g))
         IN <<[err |-> e, message |-> DisplayPackageNotFound(e)]>>
    ELSE NoError

----------------------------------------------------------------------------
(* Operations on a resolved graph *)

\* the union step of a merge: an equal key with the same item is kept as it
\* is, an equal key with another item is a conflict, a new key is appended
MergeInsert(m, k, v) ==
    IF ContainsKey(m, k)
    THEN [ok |-> m[IndexOfKey(m, k)].item = v, map |-> m]
    ELSE [ok |-> TRUE, map |-> Append(m, Entry(k, v))]

RECURSIVE MergeMaps(_, _)
MergeMaps(m, entries) ==
    IF entries = <<>> THEN [ok |-> TRUE, map |-> m]
    ELSE LET before == MergeMaps(m, SubSeq(entries, 1, Len(entries) - 1))
             e == entries[Len(entries)]
         IN IF before.ok THEN MergeInsert(before.map, e.key, e.item) ELSE before

\* graph g2 moved into fresh slots after the items of g1
Appended(g1, g2) ==
    LET pmap == [p \in Ids(g2.packages) |-> Len(g1.packages) + p]
        imap == [i \in Ids(g2.interfaces) |-> Len(g1.interfaces) + i]
        tmap == [t \in Ids(g2.types) |-> Len(g1.types) + t]
        wmap == [w \in Ids(g2.worlds) |-> Len(g1.worlds) + w]
    IN [packages |-> g1.packages \o g2.packages,
        interfaces |-> g1.interfaces \o
            [i \in 1..Len(g2.interfaces) |->
                LET it == g2.interfaces[i] IN
                Interface(it.name,
                          IF it.package = NoId THEN NoId ELSE pmap[it.package],
                          [x \in 1..Len(it.types) |-> tmap[it.types[x]]])],
        types |-> g1.types \o
            [t \in 1..Len(g2.types) |-> RemapTypeDef(g2.types[t], imap, tmap, wmap)],
        worlds |-> g1.worlds \o
            [w \in 1..Len(g2.worlds) |->
                LET wd == g2.worlds[w] IN
                World(wd.name, RemapMap(wd.imports, imap, tmap),
                      RemapMap(wd.exports, imap, tmap),
                      IF wd.package = NoId THEN NoId ELSE pmap[wd.package])]]

\* A merge that works on the graph itself and stops at the conflict.
MergeInPlace(g1, w1, g2, w2) ==
    LET all == Appended(g1, g2)
        other == At(all.worlds, Len(g1.worlds) + w2)
        mine == At(g1.worlds, w1)
        imps == MergeMaps(mine.imports, other.imports)
        exps == MergeMaps(mine.exports, other.exports)
    IN [ok |-> imps.ok /\ exps.ok,
        graph |-> [all EXCEPT !.worlds[w1 + 1].imports = imps.map,
                              !.worlds[w1 + 1].exports = exps.map]]

\* The whole-graph merge of world w2 of g2 into world w1 of g1: on a copy of
\* g1, g2 is remapped into fresh slots and the imports and exports of the two
\* worlds are united; a conflict discards the copy.
Merge(g1, w1, g2, w2) ==
    LET all == Appended(g1, g2)
        other == At(all.worlds, Len(g1.worlds) + w2)
        mine == At(g1.worlds, w1)
        imps == MergeMaps(mine.imports, other.imports)
        exps == MergeMaps(mine.exports, other.exports)
    IN IF imps.ok /\ exps.ok
       THEN [ok |-> TRUE,
             graph |-> [all EXCEPT !.worlds[w1 + 1].imports = imps.map,
                                   !.worlds[w1 + 1].exports = exps.map]]
       ELSE [ok |-> FALSE, graph |-> g1]

\* whether an import is an interface of a versioned package
HasTrack(g, e) ==
    /\ e.key.tag = "Interface"
    /\ At(g.interfaces, e.key.id).package # NoId
    /\ At(g.packages, At(g.interfaces, e.key.id).package).name.version # NoVersion

ImportVersion(g, e) == At(g.packages, At(g.interfaces, e.key.id).package).name.version

\* the interface an import names and the track of its version
TrackOf(g, e) ==
    LET it == At(g.interfaces, e.key.id)
        pn == At(g.packages, it.package).name
    IN [namespace |-> pn.namespace, name |-> pn.name, interface |-> it.name,
        track |-> VersionCompatTrack(pn.version)]

\* an import that another import of its track, with a higher version, absorbs
Absorbed(g, m, e) ==
    /\ HasTrack(g, e)
    /\ \E j \in 1..Len(m) :
        /\ HasTrack(g, m[j])
        /\ TrackOf(g, m[j]) = TrackOf(g, e)
        /\ VersionLess(ImportVersion(g, e), ImportVersion(g, m[j]))

\* A semver merge that absorbs one import per call.
SemverMergeOneStep(g, w) ==
    LET m == At(g.worlds, w).imports
        S == {i \in 1..Len(m) : Absorbed(g, m, m[i])}
    IN IF S = {} THEN [ok |-> TRUE, graph |-> g]
       ELSE [ok |-> TRUE,
             graph |-> [g EXCEPT !.worlds[w + 1].imports =
                            [i \in 1..(Len(m) - 1) |-> IF i < Min(S) THEN m[i] ELSE m[i + 1]]]]

\* Resolve::merge_world_imports_based_on_semver
SemverMerge(g, w) ==
    LET m == At(g.worlds, w).imports IN
    [ok |-> TRUE,
     graph |-> [g EXCEPT !.worlds[w + 1].imports =
                    SelectSeq(m, LAMBDA e : ~Absorbed(g, m, e))]]

\* An importize that moves the type exports into the imports as well.
ImportizeTypesToo(g, w) ==
    LET wd == At(g.worlds, w)
        imps == MergeMaps(wd.imports, wd.exports)
    IN IF imps.ok
       THEN [ok |-> TRUE,
             graph |-> [g EXCEPT !.worlds[w + 1].imports = imps.map,
                                 !.worlds[w + 1].exports = <<>>]]
       ELSE [ok |-> FALSE, graph |-> g]

\* Resolve::importize: the interface and function exports of the world become
\* imports (an export already imported under an equal key must be the same
\* item); type exports stay exports
Importize(g, w) ==
    LET wd == At(g.worlds, w)
        moved == SelectSeq(wd.exports, LAMBDA e : e.item.tag # "Type")
        kept == SelectSeq(wd.exports, LAMBDA e : e.item.tag = "Type")
        imps == MergeMaps(wd.imports, moved)
    IN IF imps.ok
       THEN [ok |-> TRUE,
             graph |-> [g EXCEPT !.worlds[w + 1].imports = imps.map,
                                 !.worlds[w + 1].exports = kept]]
       ELSE [ok |-> FALSE, graph |-> g]

\* Resolve::assert_valid
TypeInBounds(g, ty) == ty.prim = "id" => ty.id \in Ids(g.types)

ItemInBounds(g, it) ==
    CASE it.tag = "Interface" -> it.id \in Ids(g.interfaces)
      [] it.tag = "Type" -> it.id \in Ids(g.types)
      [] OTHER -> TypeInBounds(g, it.func.result)

MapValid(g, m) ==
    /\ DedupOk(m)
    /\ \A i \in 1..Len(m) :
        /\ m[i].key.tag = "Interface" => m[i].key.id \in Ids(g.interfaces)
        /\ ItemInBounds(g, m[i].item)

Valid(g) ==
    /\ \A t \in Ids(g.types) :
        LET td == At(g.types, t) IN
        /\ td.kind.tag # "Unknown"
        /\ \A i \in 1..Len(td.kind.tys) : TypeInBounds(g, td.kind.tys[i])
        /\ td.owner.tag = "Interface" => td.owner.id \in Ids(g.interfaces)
        /\ td.owner.tag = "World" => td.owner.id \in Ids(g.worlds)
    /\ \A i \in Ids(g.interfaces) :
        LET it == At(g.interfaces, i) IN
        /\ it.package # NoId => it.package \in Ids(g.packages)
        /\ \A x \in 1..Len(it.types) : it.types[x] \in Ids(g.types)
    /\ \A w \in Ids(g.worlds) :
        LET wd == At(g.worlds, w) IN
        /\ wd.package # NoId => wd.package \in Ids(g.packages)
        /\ MapValid(g, wd.imports)
        /\ MapValid(g, wd.exports)
        /\ wd.includes = <<>>
        /\ wd.include_names = <<>>

----------------------------------------------------------------------------
(* The graph under construction and its clone *)

MaxPackages == 4

GraphVersions == {V(1, 0, 0), V(1, 0, 1), V(1, 1, 0), V(2, 0, 0)}

ImportSyms == {Dep(v) : v \in GraphVersions} \cup {Fn(Foo), Fn(AsyncFoo)}
ExportSyms == {Fn(Foo), Fn(AsyncFoo), Ty, Dep(V(1, 0, 0))}

SeqsUpTo(S, n) == UNION {[1..k -> S] : k \in 0..n}

\* a graph of one wasi:io package and one world, built by two pushes
SmallGraph(v, imports, exports) ==
    Push(Push(EmptyResolve, IoPackage(v)).graph, AppPackage(imports, exports)).graph

\* the graphs a merge takes as its second argument
SmallGraphs ==
    UNION {{SmallGraph(v, imports, <<>>) :
                imports \in {<<Dep(v)>>, <<Dep(v), Fn(Foo)>>, <<Fn(AsyncFoo), Dep(v)>>}} :
            v \in {V(1, 0, 1), V(2, 0, 0)}}
    \cup {SmallGraph(V(1, 0, 0), <<Fn(Foo)>>, <<Dep(V(1, 0, 0)), Ty>>)}

NoOp == [name |-> "none", world |-> NoId]
Op(n, w) == [name |-> n, world |-> w]
Outcome(ok) == IF ok THEN "ok" ELSE "err"

HasPackage(g, pn) == \E p \in Ids(g.packages) : At(g.packages, p).name = pn

InitGraph ==
    /\ resolve = EmptyResolve
    /\ resolve2 = NoGraph
    /\ op = NoOp
    /\ result = NoResult
    /\ prev = NoGraph
    /\ error = NoError

IdleGraph ==
    /\ resolve = EmptyResolve
    /\ resolve2 = NoGraph
    /\ op = NoOp
    /\ result = "idle"
    /\ prev = NoGraph
    /\ error = NoError

\* Resolve::push of a wasi:io package
PushIo ==
    /\ Len(resolve.packages) < MaxPackages
    /\ \E v \in GraphVersions :
        /\ ~HasPackage(resolve, PackageName("wasi", "io", v))
        /\ LET r == Push(resolve, IoPackage(v)) IN
            /\ resolve' = r.graph
            /\ result' = Outcome(r.ok)
            /\ error' = PushError(resolve, IoPackage(v))
    /\ op' = Op("push", NoId)
    /\ prev' = Some(resolve)
    /\ resolve2' = NoGraph
    /\ UNCHANGED <<keyVars, trackVars, worldVars, derivVars, restVars>>

\* Resolve::push of the package of a world
PushApp ==
    /\ Len(resolve.packages) < MaxPackages
    /\ ~HasPackage(resolve, PackageName("app", "main", NoVersion))
    /\ \E imports \in SeqsUpTo(ImportSyms, MaxItems) :
        \E exports \in SeqsUpTo(ExportSyms, MaxItems - Len(imports)) :
            LET r == Push(resolve, AppPackage(imports, exports)) IN
            /\ resolve' = r.graph
            /\ result' = Outcome(r.ok)
            /\ error' = PushError(resolve, AppPackage(imports, exports))
    /\ op' = Op("push", NoId)
    /\ prev' = Some(resolve)
    /\ resolve2' = NoGraph
    /\ UNCHANGED <<keyVars, trackVars, worldVars, derivVars, restVars>>

\* b1.resolve.merge_world_imports_based_on_semver(b1.world)
SemverMergeWorld ==
    \E w \in Ids(resolve.worlds) :
        /\ LET r == SemverMerge(resolve, w) IN
            /\ resolve' = r.graph
            /\ result' = Outcome(r.ok)
        /\ op' = Op("semver", w)
        /\ prev' = Some(resolve)
        /\ error' = NoError
        /\ resolve2' = NoGraph
        /\ UNCHANGED <<keyVars, trackVars, worldVars, derivVars, restVars>>

\* b1.merge(b2)
MergeGraphs ==
    \E w \in Ids(resolve.worlds), g2 \in SmallGraphs :
        /\ Len(resolve.packages) + Len(g2.packages) <= MaxPackages
        /\ LET r == Merge(resolve, w, g2, 0) IN
            /\ resolve' = r.graph
            /\ result' = Outcome(r.ok)
        /\ op' = Op("merge", w)
        /\ prev' = Some(resolve)
        /\ error' = NoError
        /\ resolve2' = NoGraph
        /\ UNCHANGED <<keyVars, trackVars, worldVars, derivVars, restVars>>

\* let mut resolve2 = resolve.clone()
CloneResolve ==
    /\ resolve.worlds # <<>>
    /\ resolve2 = NoGraph
    /\ resolve2' = Some(resolve)
    /\ op' = Op("clone", NoId)
    /\ result' = "ok"
    /\ prev' = Some(resolve)
    /\ error' = NoError
    /\ UNCHANGED resolve
    /\ UNCHANGED <<keyVars, trackVars, worldVars, derivVars, restVars>>

\* An importize through a clone that shares the arenas of the original.
ImportizeShared ==
    /\ resolve2 # NoGraph
    /\ \E w \in Ids(resolve2[1].worlds) :
        /\ LET r == Importize(resolve2[1], w) IN
            /\ resolve2' = Some(r.graph)
            /\ resolve' = r.graph
            /\ result' = Outcome(r.ok)
        /\ op' = Op("importize-clone", w)
    /\ prev' = Some(resolve)
    /\ error' = NoError
    /\ UNCHANGED <<keyVars, trackVars, worldVars, derivVars, restVars>>

\* resolve2.importize(id, None)
ImportizeClone ==
    /\ resolve2 # NoGraph
    /\ \E w \in Ids(resolve2[1].worlds) :
        /\ LET r == Importize(resolve2[1], w) IN
            /\ resolve2' = Some(r.graph)
            /\ result' = Outcome(r.ok)
        /\ op' = Op("importize-clone", w)
    /\ prev' = Some(resolve)
    /\ error' = NoError
    /\ UNCHANGED resolve
    /\ UNCHANGED <<keyVars, trackVars, worldVars, derivVars, restVars>>

\* a world merge into the clone
MergeIntoClone ==
    /\ resolve2 # NoGraph
    /\ \E w \in Ids(resolve2[1].worlds), g2 \in SmallGraphs :
        /\ Len(resolve2[1].packages) + Len(g2.packages) <= MaxPackages
        /\ LET r == Merge(resolve2[1], w, g2, 0) IN
            /\ resolve2' = Some(r.graph)
            /\ result' = Outcome(r.ok)
        /\ op' = Op("merge-clone", w)
    /\ prev' = Some(resolve)
    /\ error' = NoError
    /\ UNCHANGED resolve
    /\ UNCHANGED <<keyVars, trackVars, worldVars, derivVars, restVars>>

----------------------------------------------------------------------------
(* Representation derivation: discriminant_type and Flags::repr *)

\* u8::max_value() and u16::max_value()
U8Max == 255
U16Max == 65535

\* A usize is 64 bits wide: four 16-bit limbs, least significant first.
Usize(l0, l1, l2, l3) == <<l0, l1, l2, l3>>

\* usize::checked_sub(1): None on zero, otherwise the borrow runs through the
\* zero limbs below the lowest non-zero one
CheckedSubOne(n) ==
    IF \A i \in 1..4 : n[i] = 0 THEN <<>>
    ELSE LET low == CHOOSE i \in 1..4 : n[i] # 0 /\ \A j \in 1..(i - 1) : n[j] = 0
         IN <<[i \in 1..4 |-> IF i < low THEN U16Max
                              ELSE IF i = low THEN n[i] - 1
                              ELSE n[i]]>>

\* n <= u8::max_value() as usize, and so on
FitsU8(n) == n[1] <= U8Max /\ n[2] = 0 /\ n[3] = 0 /\ n[4] = 0
FitsU16(n) == n[2] = 0 /\ n[3] = 0 /\ n[4] = 0
FitsU32(n) == n[3] = 0 /\ n[4] = 0

\* the panic of discriminant_type
Panicked == "panic"

\* A discriminant_type that sizes the count instead of the largest value.
DiscriminantTypeOfCount(num_cases) ==
    IF FitsU8(num_cases) THEN "U8"
    ELSE IF FitsU16(num_cases) THEN "U16"
    ELSE IF FitsU32(num_cases) THEN "U32"
    ELSE Panicked

\* A discriminant_type that widens instead of panicking.
DiscriminantTypeWide(num_cases) ==
    LET m == CheckedSubOne(num_cases) IN
    IF m = <<>> THEN "U8"
    ELSE IF FitsU8(m[1]) THEN "U8"
    ELSE IF FitsU16(m[1]) THEN "U16"
    ELSE IF FitsU32(m[1]) THEN "U32"
    ELSE "U64"

\* fn discriminant_type
DiscriminantType(num_cases) ==
    LET m == CheckedSubOne(num_cases) IN
    IF m = <<>> THEN "U8"
    ELSE IF FitsU8(m[1]) THEN "U8"
    ELSE IF FitsU16(m[1]) THEN "U16"
    ELSE IF FitsU32(m[1]) THEN "U32"
    ELSE Panicked

\* enum FlagsRepr
FlagsReprU8 == [tag |-> "U8", words |-> 1]
FlagsReprU16 == [tag |-> "U16", words |-> 1]
FlagsReprU32(n) == [tag |-> "U32", words |-> n]
NoRepr == [tag |-> "none", words |-> 0]

\* sizealign::align_to: val rounded up to a multiple of align
AlignTo(val, align) == ((val + align - 1) \div align) * align

\* A Flags::repr that rounds the word count down.
FlagsReprTruncating(n) ==
    IF n = 0 THEN FlagsReprU32(0)
    ELSE IF n <= 8 THEN FlagsReprU8
    ELSE IF n <= 16 THEN FlagsReprU16
    ELSE FlagsReprU32(n \div 32)

\* Flags::repr, of a flags type with n flags
FlagsRepr(n) ==
    IF n = 0 THEN FlagsReprU32(0)
    ELSE IF n <= 8 THEN FlagsReprU8
    ELSE IF n <= 16 THEN FlagsReprU16
    ELSE FlagsReprU32(AlignTo(n, 32) \div 32)

MaxFlags == 66

\* case counts around every boundary of discriminant_type, up to usize::MAX
CaseCounts ==
    {Usize(l0, l1, l2, l3) : l0 \in {0, 1, 2, U8Max, U8Max + 1, U8Max + 2, U16Max},
                             l1 \in {0, 1, U16Max},
                             l2 \in {0, 1},
                             l3 \in {0, U16Max}}

NoTag == "none"

InitRepr ==
    /\ cases \in CaseCounts
    /\ disc = NoTag
    /\ nflags \in 0..MaxFlags
    /\ repr = NoRepr

IdleRepr ==
    /\ cases = Usize(0, 0, 0, 0)
    /\ disc = NoTag
    /\ nflags = 0
    /\ repr = NoRepr

\* Enum::tag / Variant::tag: discriminant_type(self.cases.len())
ComputeTag ==
    /\ disc = NoTag
    /\ disc' = DiscriminantType(cases)
    /\ UNCHANGED <<cases, nflags, repr>>
    /\ UNCHANGED <<keyVars, trackVars, worldVars, graphVars, stabVars, abiVars, futVars, restVars>>

\* Flags::repr
ComputeRepr ==
    /\ repr = NoRepr
    /\ repr' = FlagsRepr(nflags)
    /\ UNCHANGED <<cases, disc, nflags>>
    /\ UNCHANGED <<keyVars, trackVars, worldVars, graphVars, stabVars, abiVars, futVars, restVars>>

----------------------------------------------------------------------------
(* Stability and feature gating *)

\* std::cmp::Ordering
Less == "Less"
Equal == "Equal"
Greater == "Greater"

\* Ordering::then
Then(o1, o2) == IF o1 # Equal THEN o1 ELSE o2

\* Ord for integers
IntCmp(a, b) == IF a < b THEN Less ELSE IF a > b THEN Greater ELSE Equal

\* the bytes of the characters feature names are written with
ByteOf(c) == IF c = "x" THEN 120 ELSE IF c = "y" THEN 121 ELSE 0

\* Ord for String: lexicographic on bytes, a proper prefix is less
RECURSIVE StrCmp(_, _)
StrCmp(a, b) ==
    IF a = <<>> /\ b = <<>> THEN Equal
    ELSE IF a = <<>> THEN Less
    ELSE IF b = <<>> THEN Greater
    ELSE Then(IntCmp(ByteOf(Head(a)), ByteOf(Head(b))), StrCmp(Tail(a), Tail(b)))

\* Ord for semver::Version
VersionCmp(a, b) ==
    IF VersionLess(a, b) THEN Less
    ELSE IF VersionLess(b, a) THEN Greater
    ELSE Equal

\* Ord for Option<Version>: None is less than every Some
OptionVersionCmp(a, b) ==
    IF a = <<>> /\ b = <<>> THEN Equal
    ELSE IF a = <<>> THEN Less
    ELSE IF b = <<>> THEN Greater
    ELSE VersionCmp(a[1], b[1])

\* enum Stability; feature and since are empty where the variant has none
StabilityUnknown ==
    [tag |-> "Unknown", feature |-> <<>>, since |-> <<>>, deprecated |-> <<>>]
Unstable(feature, deprecated) ==
    [tag |-> "Unstable", feature |-> feature, since |-> <<>>, deprecated |-> deprecated]
Stable(since, deprecated) ==
    [tag |-> "Stable", feature |-> <<>>, since |-> <<since>>, deprecated |-> deprecated]

\* A discriminant order that puts Stable first.
DiscriminantStableFirst(s) ==
    IF s.tag = "Stable" THEN 0 ELSE IF s.tag = "Unknown" THEN 1 ELSE 2

\* the position of a value's variant in the declaration of Stability
Discriminant(s) ==
    IF s.tag = "Unknown" THEN 0 ELSE IF s.tag = "Unstable" THEN 1 ELSE 2

\* #[derive(PartialOrd, Ord)] on Stability: the variant first, then the fields
\* of the variant in the order they are declared
StabilityCmp(a, b) ==
    IF Discriminant(a) # Discriminant(b)
    THEN IntCmp(Discriminant(a), Discriminant(b))
    ELSE IF a.tag = "Unstable"
    THEN Then(StrCmp(a.feature, b.feature),
              OptionVersionCmp(a.deprecated, b.deprecated))
    ELSE IF a.tag = "Stable"
    THEN Then(VersionCmp(a.since[1], b.since[1]),
              OptionVersionCmp(a.deprecated, b.deprecated))
    ELSE Equal

\* A gate that ignores the all-features flag.
IncludeStabilityNamedOnly(stability, feats, all) ==
    IF stability.tag = "Unstable" THEN stability.feature \in feats ELSE TRUE

\* the gating query of a Resolve
IncludeStability(stability, feats, all) ==
    IF stability.tag = "Unstable" THEN stability.feature \in feats \/ all ELSE TRUE

FeatureNames == {<<"x">>, <<"x", "y">>, <<"y">>}
Deprecations == {<<>>, <<V(1, 0, 0)>>, <<V(2, 0, 0)>>}
Sinces == {V(1, 0, 0), V(1, 1, 0)}

Stabilities ==
    {StabilityUnknown}
    \cup {Unstable(f, d) : f \in FeatureNames, d \in Deprecations}
    \cup {Stable(v, d) : v \in Sinces, d \in Deprecations}

NoCmp == <<>>

\* a Resolve starts with no feature enabled
InitStability ==
    /\ sa \in Stabilities
    /\ sb \in Stabilities
    /\ sc \in Stabilities
    /\ scmp = NoCmp
    /\ features = {}
    /\ all_features = FALSE
    /\ visible = <<>>

IdleStability ==
    /\ sa = StabilityUnknown
    /\ sb = StabilityUnknown
    /\ sc = StabilityUnknown
    /\ scmp = NoCmp
    /\ features = {}
    /\ all_features = FALSE
    /\ visible = <<>>

\* Stability::cmp, on each pair of the three values
CompareStability ==
    /\ scmp = NoCmp
    /\ scmp' = <<[ab |-> StabilityCmp(sa, sb), ba |-> StabilityCmp(sb, sa),
                  bc |-> StabilityCmp(sb, sc), ac |-> StabilityCmp(sa, sc)]>>
    /\ UNCHANGED <<sa, sb, sc, features, all_features, visible>>
    /\ UNCHANGED <<keyVars, trackVars, worldVars, graphVars, reprVars, abiVars, futVars, restVars>>

\* the caller enables one more feature
EnableFeature ==
    /\ \E f \in FeatureNames \ features : features' = features \cup {f}
    /\ visible' = <<>>
    /\ UNCHANGED <<sa, sb, sc, scmp, all_features>>
    /\ UNCHANGED <<keyVars, trackVars, worldVars, graphVars, reprVars, abiVars, futVars, restVars>>

\* new_resolve.all_features = true
EnableAllFeatures ==
    /\ ~all_features
    /\ all_features' = TRUE
    /\ visible' = <<>>
    /\ UNCHANGED <<sa, sb, sc, scmp, features>>
    /\ UNCHANGED <<keyVars, trackVars, worldVars, graphVars, reprVars, abiVars, futVars, restVars>>

\* the gating query, asked about sa
QueryStability ==
    /\ visible = <<>>
    /\ visible' = <<IncludeStability(sa, features, all_features)>>
    /\ UNCHANGED <<sa, sb, sc, scmp, features, all_features>>
    /\ UNCHANGED <<keyVars, trackVars, worldVars, graphVars, reprVars, abiVars, futVars, restVars>>

----------------------------------------------------------------------------
(* Name mangling and the lift/lower ABI *)

\* enum Mangling
Standard32 == "Standard32"
Legacy == "Legacy"
Manglings == {Standard32, Legacy}

\* enum LiftLowerAbi
AbiSync == "Sync"
AsyncCallback == "AsyncCallback"
AsyncStackful == "AsyncStackful"
LiftLowerAbis == {AbiSync, AsyncCallback, AsyncStackful}

\* enum ManglingAndAbi
MaStandard32 == [tag |-> Standard32, abi |-> "none"]
MaLegacy(a) == [tag |-> Legacy, abi |-> a]
ManglingAndAbis == {MaStandard32} \cup {MaLegacy(a) : a \in LiftLowerAbis}

\* the literals of the naming functions
Cm32p2 == <<"c", "m", "3", "2", "p", "2">>
Bar1 == <<"|">>
Hash1 == <<"#">>
AsyncLower == <<"[", "a", "s", "y", "n", "c", "-", "l", "o", "w", "e", "r", "]">>
AsyncLift == <<"[", "a", "s", "y", "n", "c", "-", "l", "i", "f", "t", "]">>
AsyncLiftStackful ==
    <<"[", "a", "s", "y", "n", "c", "-", "l", "i", "f", "t", "-",
      "s", "t", "a", "c", "k", "f", "u", "l", "]">>

\* A core_export_name that writes the '#' of the legacy form without an interface too.
CoreExportNameAlwaysHash(name, interface, m) ==
    IF interface # <<>>
    THEN IF m = Standard32 THEN Cm32p2 \o Bar1 \o interface[1] \o Bar1 \o name
         ELSE interface[1] \o Hash1 \o name
    ELSE IF m = Standard32 THEN Cm32p2 \o Bar1 \o Bar1 \o name
         ELSE Hash1 \o name

\* Function::core_export_name, of the function named name
CoreExportName(name, interface, m) ==
    IF interface # <<>>
    THEN IF m = Standard32 THEN Cm32p2 \o Bar1 \o interface[1] \o Bar1 \o name
         ELSE interface[1] \o Hash1 \o name
    ELSE IF m = Standard32 THEN Cm32p2 \o Bar1 \o Bar1 \o name
         ELSE name

\* LiftLowerAbi::import_prefix
ImportPrefix(a) == IF a = AbiSync THEN <<>> ELSE AsyncLower

\* An export_prefix with one prefix for both async variants.
ExportPrefixOneAsync(a) == IF a = AbiSync THEN <<>> ELSE AsyncLift

\* LiftLowerAbi::export_prefix
ExportPrefix(a) ==
    IF a = AbiSync THEN <<>>
    ELSE IF a = AsyncCallback THEN AsyncLift
    ELSE AsyncLiftStackful

\* A sync that leaves the stackful variant as it is.
SyncCallbackOnly(m) ==
    IF m = MaLegacy(AsyncCallback) THEN MaLegacy(AbiSync) ELSE m

\* ManglingAndAbi::sync
Sync(m) ==
    IF m = MaStandard32 \/ m = MaLegacy(AbiSync) THEN m
    ELSE MaLegacy(AbiSync)

\* ManglingAndAbi::is_async
IsAsync(m) ==
    IF m = MaStandard32 \/ m = MaLegacy(AbiSync) THEN FALSE
    ELSE TRUE

FuncNames == {Foo, AsyncFoo, <<"f">>}
InterfaceNames == {<<>>, <<<<"i">>>>, <<<<"a", ":", "b", "/", "i">>>>}

InitAbi ==
    /\ fname \in FuncNames
    /\ iface \in InterfaceNames
    /\ mangling \in Manglings
    /\ abi \in LiftLowerAbis
    /\ mabi \in ManglingAndAbis
    /\ export_name = <<>>
    /\ prefixes = <<>>
    /\ synced = <<>>

IdleAbi ==
    /\ fname = <<>>
    /\ iface = <<>>
    /\ mangling = Legacy
    /\ abi = AbiSync
    /\ mabi = MaStandard32
    /\ export_name = <<>>
    /\ prefixes = <<>>
    /\ synced = <<>>

\* Function::core_export_name
ComputeExportName ==
    /\ export_name = <<>>
    /\ export_name' = <<CoreExportName(fname, iface, mangling)>>
    /\ UNCHANGED <<fname, iface, mangling, abi, mabi, prefixes, synced>>
    /\ UNCHANGED <<keyVars, trackVars, worldVars, graphVars, reprVars, stabVars, futVars, restVars>>

\* LiftLowerAbi::import_prefix and LiftLowerAbi::export_prefix
ComputePrefixes ==
    /\ prefixes = <<>>
    /\ prefixes' = <<[import |-> ImportPrefix(abi), export |-> ExportPrefix(abi)]>>
    /\ UNCHANGED <<fname, iface, mangling, abi, mabi, export_name, synced>>
    /\ UNCHANGED <<keyVars, trackVars, worldVars, graphVars, reprVars, stabVars, futVars, restVars>>

\* ManglingAndAbi::sync and ManglingAndAbi::is_async
ComputeSync ==
    /\ synced = <<>>
    /\ synced' = <<[sync |-> Sync(mabi), is_async |-> IsAsync(mabi),
                    sync_is_async |-> IsAsync(Sync(mabi))]>>
    /\ UNCHANGED <<fname, iface, mangling, abi, mabi, export_name, prefixes>>
    /\ UNCHANGED <<keyVars, trackVars, worldVars, graphVars, reprVars, stabVars, futVars, restVars>>

----------------------------------------------------------------------------
(* Function::find_futures_and_streams *)

\* The kinds whose arm of find_futures_and_streams does nothing.  A handle
\* names its resource, but the arm does not follow it.
LeafKinds == {"Resource", "Handle", "Flags", "Enum"}

\* The kinds that push their own id after their payload.
ChannelKinds == {"Future", "Stream"}

\* A kind lists the types its arm visits, in the order it visits them: the
\* fields of a record, the cases of a variant that carry a type, ok before
\* err in a result, the payload of a future or stream when it has one.

RECURSIVE FindPreOrder(_, _, _)
RECURSIVE FindPreOrderEach(_, _, _)

\* A search that pushes a future or stream before it descends into its payload.
FindPreOrder(types, ty, results) ==
    IF ty.prim # "id" THEN results
    ELSE LET kind == At(types, ty.id).kind IN
         IF kind.tag \in LeafKinds THEN results
         ELSE IF kind.tag \in ChannelKinds
         THEN FindPreOrderEach(types, kind.tys, Append(results, ty.id))
         ELSE FindPreOrderEach(types, kind.tys, results)

FindPreOrderEach(types, tys, results) ==
    IF tys = <<>> THEN results
    ELSE FindPreOrderEach(types, Tail(tys), FindPreOrder(types, Head(tys), results))

RECURSIVE FindFuturesAndStreamsIn(_, _, _)
RECURSIVE FindEach(_, _, _)

\* fn find_futures_and_streams(resolve, ty, results); a resolved arena holds
\* no Unknown kind, so the unreachable!() arm is not entered
FindFuturesAndStreamsIn(types, ty, results) ==
    IF ty.prim # "id" THEN results
    ELSE LET kind == At(types, ty.id).kind IN
         IF kind.tag \in LeafKinds THEN results
         ELSE IF kind.tag \in ChannelKinds
         THEN Append(FindEach(types, kind.tys, results), ty.id)
         ELSE FindEach(types, kind.tys, results)

\* the for loops of find_futures_and_streams: one call per type, in order
FindEach(types, tys, results) ==
    IF tys = <<>> THEN results
    ELSE FindEach(types, Tail(tys), FindFuturesAndStreamsIn(types, Head(tys), results))

\* the sequence s with every repeated element struck out
RECURSIVE Deduped(_)
Deduped(s) ==
    IF s = <<>> THEN <<>>
    ELSE LET init == Deduped(SubSeq(s, 1, Len(s) - 1))
             x == s[Len(s)]
         IN IF \E i \in 1..Len(init) : init[i] = x THEN init ELSE Append(init, x)

\* A search that lists every future and stream once.
FindFuturesAndStreamsOnce(types, params, res) ==
    Deduped(FindEach(types, res, FindEach(types, params, <<>>)))

\* Function::find_futures_and_streams: the params in order, then the result
FindFuturesAndStreams(types, params, res) ==
    FindEach(types, res, FindEach(types, params, <<>>))

FsType(kind) == TypeDef(<<>>, kind, OwnerNone)

\* a resolved types arena; every type refers to earlier ones only
FsArena ==
    << FsType(Kind("Future", <<Prim("u32")>>)),                  \* 0  future<u32>
       FsType(Kind("Future", <<TId(0)>>)),                       \* 1  future<future<u32>>
       FsType(Kind("Stream", <<Prim("u8")>>)),                   \* 2  stream<u8>
       FsType(Kind("Future", <<>>)),                             \* 3  future
       FsType(Kind("Record", <<TId(1), Prim("u32"), TId(2)>>)),  \* 4
       FsType(Kind("Result", <<TId(0), TId(3)>>)),               \* 5  result<0, 3>
       FsType(Kind("Resource", <<>>)),                           \* 6
       FsType(Kind("Handle", <<TId(6)>>)),                       \* 7  own<6>
       FsType(Kind("Stream", <<TId(4)>>)),                       \* 8  stream<4>
       FsType(Kind("Type", <<TId(1)>>)),                         \* 9  type = 1
       FsType(Kind("Variant", <<TId(2), TId(0)>>)),              \* 10
       FsType(Kind("Tuple", <<TId(0), TId(0)>>)),                \* 11 tuple<0, 0>
       FsType(Kind("Enum", <<>>)),                               \* 12
       FsType(Kind("List", <<TId(7)>>)) >>                       \* 13 list<own<6>>

MaxParams == 2

\* the types a signature of the model is written with
SigTypes ==
    {Prim("u32"), TId(0), TId(1), TId(2), TId(3), TId(4), TId(5),
     TId(8), TId(9), TId(10), TId(11), TId(13)}

NotSearched == <<>>

InitFutures ==
    /\ ftypes = FsArena
    /\ fparams \in SeqsUpTo(SigTypes, MaxParams)
    /\ fresult \in {<<>>} \cup {<<t>> : t \in SigTypes}
    /\ futures = NotSearched

IdleFutures ==
    /\ ftypes = <<>>
    /\ fparams = <<>>
    /\ fresult = <<>>
    /\ futures = NotSearched

\* Function::find_futures_and_streams
FindFutures ==
    /\ futures = NotSearched
    /\ futures' = <<FindFuturesAndStreams(ftypes, fparams, fresult)>>
    /\ UNCHANGED <<ftypes, fparams, fresult>>
    /\ UNCHANGED <<keyVars, trackVars, worldVars, graphVars, reprVars, stabVars, abiVars, restVars>>

IdleDeriv == IdleRepr /\ IdleStability /\ IdleAbi /\ IdleFutures

----------------------------------------------------------------------------
(* PackageName::to_string *)

\* versions with more than one digit, a pre-release tag, build metadata
LongVersions ==
    {V(10, 2, 0), V(0, 12, 345), Version(1, 0, 12, "alpha", "b1"),
     Version(1, 2, 0, "alpha", NoBuild), Version(2, 0, 0, NoPre, "b1")}

PackageNames ==
    {PackageName(ns, n, v) : ns \in {"wasi", "app"}, n \in {"io", "main"},
                             v \in {NoVersion} \cup VersionSet \cup LongVersions}

InitName ==
    /\ pname \in PackageNames
    /\ shown = <<>>

IdleName ==
    /\ pname = PackageName("app", "main", NoVersion)
    /\ shown = <<>>

\* name.to_string(), through impl fmt::Display for PackageName
ShowPackageName ==
    /\ shown = <<>>
    /\ shown' = <<DisplayPackageName(pname)>>
    /\ UNCHANGED pname
    /\ UNCHANGED <<keyVars, trackVars, worldVars, graphVars, derivVars, inclVars, encVars>>

----------------------------------------------------------------------------
(* Include expansion *)

MaxWorlds == 3
MaxIncludes == 2

\* struct IncludeName
IncludeName(name, as_) == [name |-> name, as_ |-> as_]

\* an entry of World::includes
Include(w) == [stability |-> StabilityUnknown, id |-> w]

\* a declared world: its own items, and the worlds it includes with their renamings
DeclaredWorld(imports, includes, names) ==
    [World("w", imports, <<>>, NoId) EXCEPT !.includes = includes,
                                            !.include_names = names]

FuncEntry(s) == Entry(Name(s), FunctionItem(FuncNamed(s, Prim("u32"))))

\* the items of an included world under the renamings of the include
Renamed(m, names) ==
    [i \in 1..Len(m) |->
        IF m[i].item.tag = "Function"
           /\ \E n \in 1..Len(names) : names[n].name = m[i].key.name
        THEN FuncEntry(names[CHOOSE n \in 1..Len(names) :
                                names[n].name = m[i].key.name].as_)
        ELSE m[i]]

\* An include that is struck off while its renamings stay behind.
DropIncludeKeepNames(wd) == [wd EXCEPT !.includes = Tail(wd.includes)]

\* the first include of a world is done: it and its renamings are removed
DropInclude(wd) ==
    [wd EXCEPT !.includes = Tail(wd.includes),
               !.include_names = Tail(wd.include_names)]

\* whether world w is being expanded further up
OnStack(stack, w) == \E i \in 1..Len(stack) : stack[i] = w

\* An expansion that starts over when it meets a world it is expanding.
RestartOnCycle(st) == [st EXCEPT !.stack = <<>>]

\* a world that includes itself, directly or through others, is rejected
RejectCycle(st) == [st EXCEPT !.phase = "failed", !.err = "cycle"]

Expanding == [phase |-> "expanding", stack |-> <<>>, err |-> ""]
NotExpanding == [phase |-> "idle", stack |-> <<>>, err |-> ""]

\* the include lists a world can declare: distinct worlds, at most MaxIncludes
IncludeLists ==
    {l \in SeqsUpTo(0..(MaxWorlds - 1), MaxIncludes) :
        \A a, b \in 1..Len(l) : a # b => l[a] # l[b]}

\* the declarations of one world: it imports foo or [async]foo, and the first
\* include may rename foo to bar
WorldDecls ==
    {DeclaredWorld(<<FuncEntry(s)>>, [k \in 1..Len(l) |-> Include(l[k])],
                   [k \in 1..Len(l) |-> IF k = 1 /\ r THEN <<IncludeName(Foo, Bar)>>
                                        ELSE <<>>]) :
        s \in {Foo, AsyncFoo}, l \in IncludeLists, r \in BOOLEAN}

InitInclude ==
    /\ idecls \in [1..MaxWorlds -> WorldDecls]
    /\ iworlds = idecls
    /\ istate = Expanding

IdleInclude ==
    /\ idecls = <<>>
    /\ iworlds = <<>>
    /\ istate = NotExpanding

Top == istate.stack[Len(istate.stack)]
FirstInclude(w) == At(iworlds, w).includes[1].id

\* the expansion turns to the first world that still has includes
BeginWorld ==
    /\ istate.phase = "expanding"
    /\ istate.stack = <<>>
    /\ \E w \in Ids(iworlds) :
        /\ At(iworlds, w).includes # <<>>
        /\ \A v \in Ids(iworlds) : At(iworlds, v).includes # <<>> => w <= v
        /\ istate' = [istate EXCEPT !.stack = <<w>>]
    /\ UNCHANGED <<idecls, iworlds>>
    /\ UNCHANGED <<keyVars, trackVars, worldVars, graphVars, derivVars, nameVars, encVars>>

\* the included world has includes of its own: they are expanded first
Descend ==
    /\ istate.phase = "expanding"
    /\ istate.stack # <<>>
    /\ At(iworlds, Top).includes # <<>>
    /\ ~OnStack(istate.stack, FirstInclude(Top))
    /\ At(iworlds, FirstInclude(Top)).includes # <<>>
    /\ istate' = [istate EXCEPT !.stack = Append(istate.stack, FirstInclude(Top))]
    /\ UNCHANGED <<idecls, iworlds>>
    /\ UNCHANGED <<keyVars, trackVars, worldVars, graphVars, derivVars, nameVars, encVars>>

\* the included world is being expanded already
MeetCycle ==
    /\ istate.phase = "expanding"
    /\ istate.stack # <<>>
    /\ At(iworlds, Top).includes # <<>>
    /\ OnStack(istate.stack, FirstInclude(Top))
    /\ istate' = RejectCycle(istate)
    /\ UNCHANGED <<idecls, iworlds>>
    /\ UNCHANGED <<keyVars, trackVars, worldVars, graphVars, derivVars, nameVars, encVars>>

\* the items of an expanded world are spliced into the including world
Splice ==
    /\ istate.phase = "expanding"
    /\ istate.stack # <<>>
    /\ At(iworlds, Top).includes # <<>>
    /\ ~OnStack(istate.stack, FirstInclude(Top))
    /\ At(iworlds, FirstInclude(Top)).includes = <<>>
    /\ LET wd == At(iworlds, Top)
           inc == At(iworlds, FirstInclude(Top))
           imps == MergeMaps(wd.imports, Renamed(inc.imports, wd.include_names[1]))
           exps == MergeMaps(wd.exports, Renamed(inc.exports, wd.include_names[1]))
       IN IF imps.ok /\ exps.ok
          THEN /\ iworlds' = [iworlds EXCEPT ![Top + 1] =
                                DropInclude([wd EXCEPT !.imports = imps.map,
                                                       !.exports = exps.map])]
               /\ UNCHANGED istate
          ELSE /\ istate' = [istate EXCEPT !.phase = "failed", !.err = "conflict"]
               /\ UNCHANGED iworlds
    /\ UNCHANGED idecls
    /\ UNCHANGED <<keyVars, trackVars, worldVars, graphVars, derivVars, nameVars, encVars>>

\* every include of the world on top is expanded
EndWorld ==
    /\ istate.phase = "expanding"
    /\ istate.stack # <<>>
    /\ At(iworlds, Top).includes = <<>>
    /\ istate' = [istate EXCEPT !.stack = SubSeq(istate.stack, 1, Len(istate.stack) - 1)]
    /\ UNCHANGED <<idecls, iworlds>>
    /\ UNCHANGED <<keyVars, trackVars, worldVars, graphVars, derivVars, nameVars, encVars>>

\* no world has includes left: the worlds are resolved
EndExpansion ==
    /\ istate.phase = "expanding"
    /\ istate.stack = <<>>
    /\ \A w \in Ids(iworlds) : At(iworlds, w).includes = <<>>
    /\ istate' = [istate EXCEPT !.phase = "done"]
    /\ UNCHANGED <<idecls, iworlds>>
    /\ UNCHANGED <<keyVars, trackVars, worldVars, graphVars, derivVars, nameVars, encVars>>

----------------------------------------------------------------------------
(* wit-encoder: ResourceFunc *)

\* enum ResourceFuncKind; a constructor has no name, async flag or result
Method(name, async_, res) ==
    [tag |-> "Method", name |-> name, async_ |-> async_, result |-> res]
Static(name, async_, res) ==
    [tag |-> "Static", name |-> name, async_ |-> async_, result |-> res]
Constructor == [tag |-> "Constructor", name |-> "", async_ |-> FALSE, result |-> <<>>]

\* struct ResourceFunc
ResourceFunc(kind, params, docs) == [kind |-> kind, params |-> params, docs |-> docs]

\* ResourceFunc::method, ResourceFunc::static_, ResourceFunc::constructor
NewMethod(name, async_) == ResourceFunc(Method(name, async_, <<>>), <<>>, <<>>)
NewStatic(name, async_) == ResourceFunc(Static(name, async_, <<>>), <<>>, <<>>)
NewConstructor == ResourceFunc(Constructor, <<>>, <<>>)

\* what a call returns to the model: whether it panicked, and the func after it
Returned(f) == [panicked |-> FALSE, func |-> f]
Panic(f) == [panicked |-> TRUE, func |-> f]

\* A set_name that turns a constructor into a method of that name.
SetNameAnyKind(f, name) ==
    IF f.kind.tag = "Constructor"
    THEN Returned([f EXCEPT !.kind = Method(name, FALSE, <<>>)])
    ELSE Returned([f EXCEPT !.kind.name = name])

\* ResourceFunc::set_name
SetName(f, name) ==
    IF f.kind.tag = "Method" THEN Returned([f EXCEPT !.kind.name = name])
    ELSE IF f.kind.tag = "Static" THEN Returned([f EXCEPT !.kind.name = name])
    ELSE Panic(f)

\* ResourceFunc::result: None for a constructor, Some(result) otherwise
Result(f) ==
    IF f.kind.tag = "Constructor" THEN <<>> ELSE <<f.kind.result>>

\* ResourceFunc::result_mut: whether there is a result slot to write to
ResultMut(f) == f.kind.tag # "Constructor"

\* A set_result that does nothing on a constructor.
SetResultSilent(f, res) ==
    IF ResultMut(f) THEN Returned([f EXCEPT !.kind.result = res])
    ELSE Returned(f)

\* ResourceFunc::set_result: result_mut().expect(..) and the write through it
SetResult(f, res) ==
    IF ResultMut(f) THEN Returned([f EXCEPT !.kind.result = res])
    ELSE Panic(f)

\* ResourceFunc::set_params and ResourceFunc::set_docs
SetParams(f, params) == Returned([f EXCEPT !.params = params])
SetDocs(f, docs) == Returned([f EXCEPT !.docs = docs])

FuncIdents == {"get", "put"}
ResultTypes == {<<>>, <<"u32">>, <<"string">>}
ParamLists == {<<>>, <<"x">>}
DocsValues == {<<>>, <<"doc">>}

Call(name, ident, res, panicked) ==
    [name |-> name, ident |-> ident, result |-> res, panicked |-> panicked]
NoCall == Call("none", "", <<>>, FALSE)

InitEncoder ==
    /\ \/ \E n \in FuncIdents, a \in BOOLEAN :
            rfunc = NewMethod(n, a) /\ rorigin = "method"
       \/ \E n \in FuncIdents, a \in BOOLEAN :
            rfunc = NewStatic(n, a) /\ rorigin = "static_"
       \/ rfunc = NewConstructor /\ rorigin = "constructor"
    /\ rlast = NoCall
    /\ rprev = rfunc

IdleEncoder ==
    /\ rfunc = NewConstructor
    /\ rorigin = "idle"
    /\ rlast = NoCall
    /\ rprev = rfunc

\* func.set_name(n)
CallSetName ==
    /\ \E n \in FuncIdents :
        LET r == SetName(rfunc, n) IN
        /\ rfunc' = r.func
        /\ rlast' = Call("set_name", n, <<>>, r.panicked)
    /\ rprev' = rfunc
    /\ UNCHANGED rorigin
    /\ UNCHANGED <<keyVars, trackVars, worldVars, graphVars, derivVars, nameVars, inclVars>>

\* func.set_result(res)
CallSetResult ==
    /\ \E res \in ResultTypes :
        LET r == SetResult(rfunc, res) IN
        /\ rfunc' = r.func
        /\ rlast' = Call("set_result", "", res, r.panicked)
    /\ rprev' = rfunc
    /\ UNCHANGED rorigin
    /\ UNCHANGED <<keyVars, trackVars, worldVars, graphVars, derivVars, nameVars, inclVars>>

\* func.set_params(params)
CallSetParams ==
    /\ \E ps \in ParamLists :
        LET r == SetParams(rfunc, ps) IN
        /\ rfunc' = r.func
        /\ rlast' = Call("set_params", "", <<>>, r.panicked)
    /\ rprev' = rfunc
    /\ UNCHANGED rorigin
    /\ UNCHANGED <<keyVars, trackVars, worldVars, graphVars, derivVars, nameVars, inclVars>>

\* func.set_docs(docs)
CallSetDocs ==
    /\ \E d \in DocsValues :
        LET r == SetDocs(rfunc, d) IN
        /\ rfunc' = r.func
        /\ rlast' = Call("set_docs", "", <<>>, r.panicked)
    /\ rprev' = rfunc
    /\ UNCHANGED rorigin
    /\ UNCHANGED <<keyVars, trackVars, worldVars, graphVars, derivVars, nameVars, inclVars>>

IdleRest == IdleName /\ IdleInclude /\ IdleEncoder

----------------------------------------------------------------------------
(* Specifications *)

InitKeySpec == InitKey /\ IdleTrack /\ IdleWorld /\ IdleGraph /\ IdleDeriv /\ IdleRest

NextKey ==
    \/ CompareKeys
    \/ HashKeys
    \/ InsertKeys

SpecKey == InitKeySpec /\ [][NextKey]_vars

InitTrackSpec == IdleKey /\ InitTrack /\ IdleWorld /\ IdleGraph /\ IdleDeriv /\ IdleRest

NextTrack == ComputeTracks

SpecTrack == InitTrackSpec /\ [][NextTrack]_vars

InitWorldSpec == IdleKey /\ IdleTrack /\ InitWorld /\ IdleGraph /\ IdleDeriv /\ IdleRest

NextWorld ==
    \/ InsertImport
    \/ InsertExport
    \/ FinishWorld

SpecWorld == InitWorldSpec /\ [][NextWorld]_vars

IdleModel == IdleKey /\ IdleTrack /\ IdleWorld /\ IdleGraph

InitReprSpec == IdleModel /\ InitRepr /\ IdleStability /\ IdleAbi /\ IdleFutures /\ IdleRest

NextRepr ==
    \/ ComputeTag
    \/ ComputeRepr

SpecRepr == InitReprSpec /\ [][NextRepr]_vars

InitStabilitySpec == IdleModel /\ IdleRepr /\ InitStability /\ IdleAbi /\ IdleFutures /\ IdleRest

NextStability ==
    \/ CompareStability
    \/ EnableFeature
    \/ EnableAllFeatures
    \/ QueryStability

SpecStability == InitStabilitySpec /\ [][NextStability]_vars

InitAbiSpec == IdleModel /\ IdleRepr /\ IdleStability /\ InitAbi /\ IdleFutures /\ IdleRest

NextAbi ==
    \/ ComputeExportName
    \/ ComputePrefixes
    \/ ComputeSync

SpecAbi == InitAbiSpec /\ [][NextAbi]_vars

InitFuturesSpec == IdleModel /\ IdleRepr /\ IdleStability /\ IdleAbi /\ InitFutures /\ IdleRest

NextFutures == FindFutures

SpecFutures == InitFuturesSpec /\ [][NextFutures]_vars

IdleFirst == IdleModel /\ IdleDeriv

InitNameSpec == IdleFirst /\ InitName /\ IdleInclude /\ IdleEncoder

NextName == ShowPackageName

SpecName == InitNameSpec /\ [][NextName]_vars

InitIncludeSpec == IdleFirst /\ IdleName /\ InitInclude /\ IdleEncoder

NextInclude ==
    \/ BeginWorld
    \/ Descend
    \/ MeetCycle
    \/ Splice
    \/ EndWorld
    \/ EndExpansion

SpecInclude == InitIncludeSpec /\ [][NextInclude]_vars

\* the expansion runs on as long as it has a step to take
SpecIncludeFair == SpecInclude /\ WF_vars(NextInclude)

InitEncoderSpec == IdleFirst /\ IdleName /\ IdleInclude /\ InitEncoder

NextEncoder ==
    \/ CallSetName
    \/ CallSetResult
    \/ CallSetParams
    \/ CallSetDocs

SpecEncoder == InitEncoderSpec /\ [][NextEncoder]_vars

Init == IdleKey /\ IdleTrack /\ IdleWorld /\ InitGraph /\ IdleDeriv /\ IdleRest

Next ==
    \/ PushIo
    \/ PushApp
    \/ SemverMergeWorld
    \/ MergeGraphs
    \/ CloneResolve
    \/ ImportizeClone
    \/ MergeIntoClone

Spec == Init /\ [][Next]_vars

----------------------------------------------------------------------------
(* Claims *)

\* two keys collide: the same interface, or the same name once a leading
\* "[async]" is stripped from each
Collides(a, b) ==
    /\ a.tag = b.tag
    /\ IF a.tag = "Name" THEN StripAsync(a.name) = StripAsync(b.name) ELSE a.id = b.id

HasKeyExactly(m, k) == \E i \in 1..Len(m) : m[i].key = k

LastMap == IF wlast.side = "import" THEN wimports ELSE wexports

\* C1: an insert into a world's imports or exports fails the assembly exactly
\* when the key collides, async-stripped, with a key already present: a failed
\* assembly's last key collides with a present one and was not added, and in an
\* assembly that has not failed no two keys of a map collide (so "foo" and
\* "[async]foo" are never both present, in either order), every accepted key is
\* in its map, and nothing is inserted after a failure.
C1_CollidingInsertFails ==
    /\ wstate = "failed" =>
        /\ \E i \in 1..Len(LastMap) : Collides(LastMap[i].key, wlast.key)
        /\ DedupOk(wimports) /\ DedupOk(wexports)
    /\ wstate \in {"building", "done"} =>
        /\ DedupOk(wimports) /\ DedupOk(wexports)
        /\ ~(HasKeyExactly(wimports, Name(Foo)) /\ HasKeyExactly(wimports, Name(AsyncFoo)))
        /\ ~(HasKeyExactly(wexports, Name(Foo)) /\ HasKeyExactly(wexports, Name(AsyncFoo)))
        /\ wlast.side # "none" =>
            /\ Len(LastMap) > 0
            /\ LastMap[Len(LastMap)].key = wlast.key

\* C1 witness: "[async]foo" was refused because "foo" is imported
C1_Witness ==
    /\ wstate = "failed"
    /\ wlast = [side |-> "import", key |-> Name(AsyncFoo)]
    /\ HasKeyExactly(wimports, Name(Foo))

\* a leading "[async]" is on one of the two strings only, and the rest is the other
OneHasMarker(a, b) == a = AsyncPrefix \o b /\ ~StartsWith(b, AsyncPrefix)

\* C2: two Name keys are equal if and only if their strings are identical after
\* one leading "[async]" is stripped from each string that has it.
C2_NameEqIffStrippedEqual ==
    (keq # <<>> /\ ka.tag = "Name" /\ kb.tag = "Name") =>
        /\ keq[1] = (StripAsync(ka.name) = StripAsync(kb.name))
        /\ keq[1] = (ka.name = kb.name \/ OneHasMarker(ka.name, kb.name)
                                    \/ OneHasMarker(kb.name, ka.name))
        /\ (ka.name = Foo /\ kb.name = AsyncFoo) => keq[1] = TRUE
        /\ (ka.name = Foo /\ kb.name = Bar) => keq[1] = FALSE
        /\ (ka.name = AsyncAsyncFoo /\ kb.name = Foo) => keq[1] = FALSE

\* C2 witness: Name("[async]foo") == Name("foo") was evaluated and is true
C2_Witness ==
    /\ keq = <<TRUE>>
    /\ ka = Name(AsyncFoo)
    /\ kb = Name(Foo)

\* C3: a Name key never equals an Interface key, in either argument order, and
\* two Interface keys are equal exactly when their handles are equal.
C3_NameNeverEqualsInterface ==
    keq # <<>> =>
        /\ ka.tag # kb.tag => keq[1] = FALSE
        /\ (ka.tag = "Interface" /\ kb.tag = "Interface") => keq[1] = (ka.id = kb.id)

\* C3 witness: an Interface key was compared with a Name key
C3_Witness ==
    /\ keq = <<FALSE>>
    /\ ka.tag = "Interface"
    /\ kb.tag = "Name"

HasPre(v) == v.pre # NoPre

\* the track the claim gives for a version without a pre-release tag
PlainTrack(v) ==
    IF v.major # 0 THEN V(v.major, 0, 0)
    ELSE IF v.minor # 0 THEN V(0, v.minor, 0)
    ELSE V(0, 0, v.patch)

\* C4 as stated: the track of a version with a pre-release tag is the version
\* itself, and the track of any other version is (major,0,0), (0,minor,0) or
\* (0,0,patch).
C4_Original ==
    tr1 # NoVersion =>
        tr1 = IF HasPre(tv1) THEN tv1 ELSE PlainTrack(tv1)

\* C4 amended: the track of a version with a pre-release tag is the version
\* itself with its build metadata cleared; the track of any other version is
\* (major,0,0) if major != 0, else (0,minor,0) if minor != 0, else (0,0,patch),
\* with no pre-release tag and no build metadata. So two versions without a
\* pre-release tag and with the same major != 0 (or major 0 and the same
\* minor != 0) have equal tracks, and 0.x and 0.y with x != y have different ones.
C4_TrackByCases ==
    tr1 # NoVersion =>
        /\ tr1 = IF HasPre(tv1) THEN [tv1 EXCEPT !.build = NoBuild] ELSE PlainTrack(tv1)
        /\ tr2 = IF HasPre(tv2) THEN [tv2 EXCEPT !.build = NoBuild] ELSE PlainTrack(tv2)
        /\ (~HasPre(tv1) /\ ~HasPre(tv2) /\ tv1.major # 0 /\ tv1.major = tv2.major)
            => tr1 = tr2
        /\ (~HasPre(tv1) /\ ~HasPre(tv2) /\ tv1.major = 0 /\ tv2.major = 0
                /\ tv1.minor # 0 /\ tv1.minor = tv2.minor)
            => tr1 = tr2
        /\ (~HasPre(tv1) /\ ~HasPre(tv2) /\ tv1.major = 0 /\ tv2.major = 0
                /\ tv1.minor # tv2.minor)
            => tr1 # tr2
        /\ (tv1 = V(1, 2, 0) /\ tv2 = V(1, 2, 2)) => tr1 = tr2
        /\ (tv1 = V(0, 1, 0) /\ tv2 = V(0, 2, 0)) => tr1 # tr2

\* C4 witness: the track of 1.2.0-alpha+b1 is 1.2.0-alpha and the track of
\* 1.2.2 is 1.0.0
C4_Witness ==
    /\ tv1 = Version(1, 2, 0, "alpha", "b1")
    /\ tv2 = V(1, 2, 2)
    /\ tr1 = Version(1, 2, 0, "alpha", NoBuild)
    /\ tr2 = V(1, 0, 0)

\* the track of a version as section 3 of the specification words it
ClaimTrack(v) == IF HasPre(v) THEN [v EXCEPT !.build = NoBuild] ELSE PlainTrack(v)

\* the world the last operation worked on, before and after it
WorldBefore == At(prev[1].worlds, op.world)
WorldAfter == At(resolve.worlds, op.world)

\* two imports name the same external interface
SameInterface(g, a, b) ==
    /\ At(g.interfaces, a.key.id).name = At(g.interfaces, b.key.id).name
    /\ At(g.packages, At(g.interfaces, a.key.id).package).name.namespace
        = At(g.packages, At(g.interfaces, b.key.id).package).name.namespace
    /\ At(g.packages, At(g.interfaces, a.key.id).package).name.name
        = At(g.packages, At(g.interfaces, b.key.id).package).name.name

\* map m imports wasi:io/poll at version v
ImportsPoll(g, m, v) ==
    \E i \in 1..Len(m) :
        /\ HasTrack(g, m[i])
        /\ At(g.interfaces, m[i].key.id).name = "poll"
        /\ At(g.packages, At(g.interfaces, m[i].key.id).package).name
            = PackageName("wasi", "io", v)

C6_SemverMergeIdempotent ==
    (op.name = "semver" /\ result = "ok") =>
        /\ SemverMerge(resolve, op.world).ok
        /\ SemverMerge(resolve, op.world).graph = resolve

\* C6 witness: a merge that absorbed two imports of one track
C6_Witness ==
    /\ op.name = "semver"
    /\ result = "ok"
    /\ Len(WorldBefore.imports) = 3
    /\ Len(WorldAfter.imports) = 1

\* C7: every graph the operations report, after construction and after every
\* merge, passes the validity check: no Unknown type, every handle within its
\* arena, every world map free of colliding keys.
C7_ResolvedGraphsValid ==
    /\ Valid(resolve)
    /\ resolve2 # NoGraph => Valid(resolve2[1])

\* C7 witness: a successful whole-graph merge of two graphs whose foreign
\* placeholders were substituted
C7_Witness ==
    /\ op.name = "merge"
    /\ result = "ok"
    /\ Len(resolve.worlds) = 2
    /\ Cardinality({t \in Ids(resolve.types) : At(resolve.types, t).kind.tag = "Borrow"}) = 2

C9_CloneIndependent ==
    /\ op.name \in {"clone", "importize-clone", "merge-clone"} => resolve = prev[1]
    /\ op.name = "clone" => resolve2 = Some(resolve)

\* C9 witness: an importize changed the clone
C9_Witness ==
    /\ op.name = "importize-clone"
    /\ result = "ok"
    /\ resolve2 # Some(resolve)
    /\ resolve = prev[1]

TopologicalTypes(g) ==
    \A t \in Ids(g.types) : \A r \in TypeRefs(At(g.types, t)) : r < t

\* C10: in the types arena every type a definition refers to has a smaller
\* index than the definition, in the graph and in its clone.
C10_TypesTopological ==
    /\ TopologicalTypes(resolve)
    /\ resolve2 # NoGraph => TopologicalTypes(resolve2[1])

\* C10 witness: an alias of a borrow of a resource of another package, in a
\* graph that a merge extended
C10_Witness ==
    /\ op.name = "merge"
    /\ result = "ok"
    /\ \E t \in Ids(resolve.types) :
        /\ At(resolve.types, t).kind.tag = "Type"
        /\ \E r \in TypeRefs(At(resolve.types, t)) :
            /\ At(resolve.types, r).kind.tag = "Borrow"
            /\ \E q \in TypeRefs(At(resolve.types, r)) :
                /\ At(resolve.types, q).kind.tag = "Resource"
                /\ q > 0

----------------------------------------------------------------------------
(* Representation derivation: C11, C12, C13 *)

\* a < b on 64-bit counts, compared from the most significant limb
UsizeLess(a, b) ==
    \E i \in 1..4 : a[i] < b[i] /\ \A j \in (i + 1)..4 : a[j] = b[j]

UsizeLe(a, b) == a = b \/ UsizeLess(a, b)

\* 256, 65536 and 2^32
Count256 == Usize(U8Max + 1, 0, 0, 0)
Count65536 == Usize(0, 1, 0, 0)
Count2p32 == Usize(0, 0, 1, 0)

\* C11: discriminant_type(n) is the 8-bit width for 0 <= n <= 256, the 16-bit
\* width for 256 < n <= 65536 and the 32-bit width for 65536 < n <= 2^32.
C11_DiscriminantWidth ==
    disc # NoTag =>
        /\ UsizeLe(cases, Count256) => disc = "U8"
        /\ UsizeLess(Count256, cases) /\ UsizeLe(cases, Count65536) => disc = "U16"
        /\ UsizeLess(Count65536, cases) /\ UsizeLe(cases, Count2p32) => disc = "U32"

\* C11 witness: the discriminant type of exactly 2^32 cases is the 32-bit width
C11_Witness ==
    /\ cases = Count2p32
    /\ disc = "U32"

\* C12: for every case count above 2^32 discriminant_type panics; it never
\* returns the 64-bit width.
C12_TooManyCasesPanics ==
    disc # NoTag =>
        /\ UsizeLess(Count2p32, cases) => disc = Panicked
        /\ disc # "U64"

\* C12 witness: discriminant_type panicked on 2^32 + 1 cases
C12_Witness ==
    /\ cases = Usize(1, 0, 1, 0)
    /\ disc = Panicked

\* the least k with 32 * k >= n
CeilDiv32(n) == CHOOSE k \in 0..n : 32 * k >= n /\ (k = 0 \/ 32 * (k - 1) < n)

\* C13: Flags::repr of n flags is U32(0) for n = 0, U8 for 1 <= n <= 8, U16 for
\* 9 <= n <= 16 and U32(ceil(n / 32)) for n >= 17; 17 flags take one 32-bit
\* word and 33 flags take two.
C13_FlagsRepr ==
    repr # NoRepr =>
        /\ nflags = 0 => repr = [tag |-> "U32", words |-> 0]
        /\ 1 <= nflags /\ nflags <= 8 => repr.tag = "U8"
        /\ 9 <= nflags /\ nflags <= 16 => repr.tag = "U16"
        /\ nflags >= 17 => repr = [tag |-> "U32", words |-> CeilDiv32(nflags)]
        /\ nflags = 17 => repr = [tag |-> "U32", words |-> 1]
        /\ nflags = 33 => repr = [tag |-> "U32", words |-> 2]

\* C13 witness: the representation of 33 flags is two 32-bit words
C13_Witness ==
    /\ nflags = 33
    /\ repr = [tag |-> "U32", words |-> 2]

----------------------------------------------------------------------------
(* Stability and feature gating: C14, C15 *)

\* a is before b as a string: a proper prefix of b, or smaller at the first
\* position where they differ
FeatureBefore(a, b) ==
    \E i \in 1..(Len(b)) :
        /\ i - 1 <= Len(a)
        /\ SubSeq(a, 1, i - 1) = SubSeq(b, 1, i - 1)
        /\ \/ Len(a) = i - 1
           \/ Len(a) >= i /\ ByteOf(a[i]) < ByteOf(b[i])

\* a is before b as an Option<Version>
DeprecatedBefore(a, b) ==
    \/ a = <<>> /\ b # <<>>
    \/ a # <<>> /\ b # <<>> /\ VersionLess(a[1], b[1])

\* a is before b by the payload of their common variant
PayloadBefore(a, b) ==
    \/ /\ a.tag = "Unstable"
       /\ \/ FeatureBefore(a.feature, b.feature)
          \/ a.feature = b.feature /\ DeprecatedBefore(a.deprecated, b.deprecated)
    \/ /\ a.tag = "Stable"
       /\ \/ VersionLess(a.since[1], b.since[1])
          \/ a.since = b.since /\ DeprecatedBefore(a.deprecated, b.deprecated)

\* C14: the order on Stability is total, with Unknown < Unstable < Stable for
\* every choice of payloads, and two values of the same variant are ordered
\* by their payload.
C14_StabilityOrder ==
    scmp # NoCmp =>
        LET c == scmp[1] IN
        /\ sa.tag = "Unknown" /\ sb.tag \in {"Unstable", "Stable"} => c.ab = Less
        /\ sa.tag = "Unstable" /\ sb.tag = "Stable" => c.ab = Less
        /\ sa.tag = sb.tag /\ PayloadBefore(sa, sb) => c.ab = Less
        /\ c.ab \in {Less, Equal, Greater}
        /\ c.ab = Equal <=> sa = sb
        /\ c.ab = Less <=> c.ba = Greater
        /\ c.ab = Greater <=> c.ba = Less
        /\ c.ab = Less /\ c.bc = Less => c.ac = Less

\* C14 witness: an Unstable value with the larger payload was compared with a
\* Stable one and came out less
C14_Witness ==
    /\ sa = Unstable(<<"y">>, <<V(2, 0, 0)>>)
    /\ sb = Stable(V(1, 0, 0), <<>>)
    /\ scmp # NoCmp
    /\ scmp[1].ab = Less

\* C15: an item is visible iff its stability is Unknown, or Stable, or
\* Unstable with a feature in the enabled set, or all features are enabled;
\* the query changes neither the stability nor the feature configuration.
C15_FeatureGating ==
    [][visible' # visible /\ visible' # <<>> =>
        /\ visible'[1] = (\/ sa.tag = "Unknown"
                          \/ sa.tag = "Stable"
                          \/ sa.tag = "Unstable" /\ sa.feature \in features
                          \/ all_features)
        /\ UNCHANGED <<sa, features, all_features>>]_vars

\* C15 witness: an item unstable under "x" was hidden while only "y" was enabled
C15_Witness ==
    /\ sa = Unstable(<<"x">>, <<>>)
    /\ features = {<<"y">>}
    /\ ~all_features
    /\ visible = <<FALSE>>

----------------------------------------------------------------------------
(* Futures and streams of a signature: C16 *)

IsChannel(types, id) == At(types, id).kind.tag \in ChannelKinds

\* the types the search descends into from the type id
Descends(types, id) ==
    IF At(types, id).kind.tag \in LeafKinds THEN {}
    ELSE TypeRefs(At(types, id))

\* the types the search reaches from the type id, itself excluded
ReachedFrom(types, id) ==
    LET step(S) == S \cup UNION {Descends(types, t) : t \in S}
        s0 == Descends(types, id)
        s1 == step(s0)
        s2 == step(s1)
        s3 == step(s2)
    IN step(s3)

\* the futures and streams nested in the payload of the type id
NestedChannels(types, id) == {t \in ReachedFrom(types, id) : IsChannel(types, t)}

\* the search of each type alone, one after the other
RECURSIVE OneByOne(_, _)
OneByOne(types, tys) ==
    IF tys = <<>> THEN <<>>
    ELSE FindFuturesAndStreams(types, <<Head(tys)>>, <<>>) \o OneByOne(types, Tail(tys))

\* C16: find_futures_and_streams lists the futures and streams of a signature
\* in depth-first post-order: params in declaration order, then the result,
\* each future or stream after every one nested in its payload; for params
\* future<future<u32>>, u32 and result stream<u8> it is exactly
\* [future<u32>, future<future<u32>>, stream<u8>].
C16_FuturesPostOrder ==
    futures # NotSearched =>
        LET out == futures[1] IN
        /\ fparams = <<TId(1), Prim("u32")>> /\ fresult = <<TId(2)>> => out = <<0, 1, 2>>
        /\ \A i \in 1..Len(out) : IsChannel(ftypes, out[i])
        /\ \A i \in 1..Len(out) : \A u \in NestedChannels(ftypes, out[i]) :
              \E j \in 1..(i - 1) : out[j] = u
        /\ out = OneByOne(ftypes, fparams \o fresult)

\* C16 witness: the signature (future<future<u32>>, u32) -> stream<u8> was searched
C16_Witness ==
    /\ fparams = <<TId(1), Prim("u32")>>
    /\ fresult = <<TId(2)>>
    /\ futures = << <<0, 1, 2>> >>

----------------------------------------------------------------------------
(* Naming: C17, C18, C19 *)

\* C17: core_export_name of f is "cm32p2|i|f" (Standard32) or "i#f" (Legacy)
\* with an interface name i, and "cm32p2||f" (Standard32) or f itself (Legacy)
\* without one.
C17_CoreExportName ==
    export_name # <<>> =>
        LET n == export_name[1] IN
        /\ iface # <<>> /\ mangling = Standard32 =>
              n = <<"c", "m", "3", "2", "p", "2", "|">> \o iface[1] \o <<"|">> \o fname
        /\ iface # <<>> /\ mangling = Legacy => n = iface[1] \o <<"#">> \o fname
        /\ iface = <<>> /\ mangling = Standard32 =>
              n = <<"c", "m", "3", "2", "p", "2", "|", "|">> \o fname
        /\ iface = <<>> /\ mangling = Legacy => n = fname
        /\ fname = Foo /\ iface = << <<"i">> >> /\ mangling = Standard32 =>
              n = <<"c", "m", "3", "2", "p", "2", "|", "i", "|", "f", "o", "o">>

\* C17 witness: the legacy name of foo without an interface is foo
C17_Witness ==
    /\ fname = Foo
    /\ iface = <<>>
    /\ mangling = Legacy
    /\ export_name = <<Foo>>

\* C18: Sync has empty import and export prefixes; AsyncCallback has
\* "[async-lower]" and "[async-lift]"; AsyncStackful has "[async-lower]" and
\* "[async-lift-stackful]".
C18_AbiPrefixes ==
    prefixes # <<>> =>
        LET p == prefixes[1]
            lower == <<"[", "a", "s", "y", "n", "c", "-", "l", "o", "w", "e", "r", "]">>
            lift == <<"[", "a", "s", "y", "n", "c", "-", "l", "i", "f", "t", "]">>
            stackful == <<"[", "a", "s", "y", "n", "c", "-", "l", "i", "f", "t",
                          "-", "s", "t", "a", "c", "k", "f", "u", "l", "]">>
        IN
        /\ abi = AbiSync => p.import = <<>> /\ p.export = <<>>
        /\ abi = AsyncCallback => p.import = lower /\ p.export = lift
        /\ abi = AsyncStackful => p.import = lower /\ p.export = stackful

\* C18 witness: the prefixes of AsyncStackful were computed
C18_Witness ==
    /\ abi = AsyncStackful
    /\ prefixes # <<>>
    /\ Len(prefixes[1].export) = 21
    /\ Len(prefixes[1].import) = 13

\* C19: sync maps Legacy(AsyncCallback) and Legacy(AsyncStackful) to
\* Legacy(Sync) and leaves Standard32 and Legacy(Sync) unchanged; is_async is
\* true exactly for the two async values; m.sync().is_async() is false for
\* every m, and m.sync() = m exactly when m.is_async() is false.
C19_SyncProjection ==
    synced # <<>> =>
        LET r == synced[1]
            async == {MaLegacy(AsyncCallback), MaLegacy(AsyncStackful)}
        IN
        /\ mabi \in async => r.sync = MaLegacy(AbiSync)
        /\ mabi \notin async => r.sync = mabi
        /\ r.is_async = (mabi \in async)
        /\ r.sync_is_async = FALSE
        /\ (r.sync = mabi) = ~r.is_async

\* C19 witness: sync was applied to Legacy(AsyncStackful)
C19_Witness ==
    /\ mabi = MaLegacy(AsyncStackful)
    /\ synced # <<>>
    /\ synced[1].sync = MaLegacy(AbiSync)
    /\ synced[1].is_async

----------------------------------------------------------------------------
(* World items: C20 *)

\* no import of any world of g is a type
NoTypeImports(g) ==
    \A w \in Ids(g.worlds) :
        \A i \in 1..Len(At(g.worlds, w).imports) :
            At(g.worlds, w).imports[i].item.tag # "Type"

----------------------------------------------------------------------------
(* Package not found: C21 *)

\* sub occurs in s as a run of consecutive characters
Occurs(sub, s) ==
    \E k \in 1..(Len(s) - Len(sub) + 1) : SubSeq(s, k, k + Len(sub) - 1) = sub

\* C21: a push that names a foreign package with no match in the graph fails
\* with a package-not-found error carrying the requested name and the names
\* of all packages known at that time; its message lists each known package,
\* or says there are no known packages when there is none.
C21_PackageNotFound ==
    error # NoError =>
        LET e == error[1].err
            msg == error[1].message
            g == prev[1]
        IN
        /\ op.name = "push"
        /\ result = "err"
        /\ resolve = g
        /\ \A p \in 1..Len(g.packages) : g.packages[p].name # e.requested
        /\ e.known = [p \in 1..Len(g.packages) |-> g.packages[p].name]
        /\ Occurs(DisplayPackageName(e.requested), msg)
        /\ \A p \in 1..Len(g.packages) :
              Occurs(<<" ">> \o DisplayPackageName(g.packages[p].name) \o <<"\n">>, msg)
        /\ g.packages = <<>> =>
              Occurs(<<"n", "o", " ", "k", "n", "o", "w", "n", " ", "p",
                       "a", "c", "k", "a", "g", "e", "s">>,
                     msg)
        /\ e.requested = PackageName("wasi", "io", V(2, 0, 0))
           /\ e.known = <<PackageName("wasi", "io", V(1, 0, 0))>> =>
              msg = <<"p", "a", "c", "k", "a", "g", "e", " ", "'", "w", "a",
                    "s", "i", ":", "i", "o", "@", "2", ".", "0", ".", "0",
                    "'", " ", "n", "o", "t", " ", "f", "o", "u", "n", "d",
                    ".", " ", "k", "n", "o", "w", "n", " ", "p", "a", "c",
                    "k", "a", "g", "e", "s", ":", "\n", " ", " ", " ", " ",
                    "w", "a", "s", "i", ":", "i", "o", "@", "1", ".", "0",
                    ".", "0", "\n">>

\* C21 witness: wasi:io@2.0.0 was requested of a graph that knows wasi:io@1.0.0 only
C21_Witness ==
    /\ op.name = "push"
    /\ result = "err"
    /\ error # NoError
    /\ error[1].err.requested = PackageName("wasi", "io", V(2, 0, 0))
    /\ error[1].err.known = <<PackageName("wasi", "io", V(1, 0, 0))>>

----------------------------------------------------------------------------
(* Include expansion: C22, C23 *)

\* world b is among the declared includes of world a
Includes(a, b) ==
    \E i \in 1..Len(At(idecls, a).includes) : At(idecls, a).includes[i].id = b

\* the worlds reached from world a through one or more includes
RECURSIVE IncludedFrom(_, _)
IncludedFrom(S, n) ==
    IF n = 0 THEN S
    ELSE IncludedFrom(S \cup {b \in Ids(idecls) : \E a \in S : Includes(a, b)}, n - 1)

IncludesItself(a) ==
    a \in IncludedFrom({b \in Ids(idecls) : Includes(a, b)}, Len(idecls))

SomeWorldIncludesItself == \E a \in Ids(idecls) : IncludesItself(a)

Ended == istate.phase \in {"done", "failed"}

\* C22: include expansion terminates for every set of declared includes; when
\* a world includes itself, directly or through a chain of other worlds, the
\* expansion ends in an error and the worlds never count as resolved.
C22_IncludeExpansionTerminates ==
    /\ <>Ended
    /\ [](SomeWorldIncludesItself => istate.phase # "done")

\* C22 witness: a chain of includes through all worlds back to the first was rejected
C22_Witness ==
    /\ istate.phase = "failed"
    /\ istate.err = "cycle"
    /\ Includes(0, 1)
    /\ Includes(1, 2)
    /\ Includes(2, 0)
    /\ ~Includes(0, 0)
    /\ Len(istate.stack) = 3

\* C23: in every resolved graph each world has an empty includes list and an
\* empty include_names list; the includes were expanded into the imports and
\* exports before.
C23_IncludesEmptyWhenResolved ==
    istate.phase = "done" =>
        \A w \in Ids(iworlds) :
            /\ At(iworlds, w).includes = <<>>
            /\ At(iworlds, w).include_names = <<>>
            /\ \A v \in Ids(idecls) : Includes(w, v) =>
                  Len(At(iworlds, w).imports) >= Len(At(idecls, w).imports)

\* C23 witness: world 0 included world 1 under a renaming and is resolved, with
\* the import of world 1 among its own
C23_Witness ==
    /\ istate.phase = "done"
    /\ Includes(0, 1)
    /\ At(idecls, 0).include_names[1] # <<>>
    /\ At(iworlds, 0).include_names = <<>>
    /\ Len(At(iworlds, 0).imports) = 2

----------------------------------------------------------------------------
(* Display of a package name: C24 *)

\* C24: a PackageName displays as namespace:name when it has no version and
\* as namespace:name@version when it has one.
C24_PackageNameDisplay ==
    shown # <<>> =>
        LET base == IdentChars(pname.namespace) \o <<":">> \o IdentChars(pname.name) IN
        /\ pname.version = NoVersion => shown[1] = base
        /\ pname.version # NoVersion =>
              shown[1] = base \o <<"@">> \o DisplayVersion(pname.version)
        /\ pname = PackageName("wasi", "io", NoVersion) =>
              shown[1] = <<"w", "a", "s", "i", ":", "i", "o">>
        /\ pname = PackageName("wasi", "io", V(1, 2, 0)) =>
              shown[1] = <<"w", "a", "s", "i", ":", "i", "o", "@", "1", ".", "2",
                  ".", "0">>
        /\ pname = PackageName("app", "main", Version(1, 0, 12, "alpha", "b1")) =>
              shown[1] = <<"a", "p", "p", ":", "m", "a", "i", "n", "@", "1", ".",
                  "0", ".", "1", "2", "-", "a", "l", "p", "h", "a", "+",
                  "b", "1">>

\* C24 witness: wasi:io@1.2.0 was displayed
C24_Witness ==
    /\ pname = PackageName("wasi", "io", V(1, 2, 0))
    /\ shown # <<>>
    /\ Len(shown[1]) = 13

----------------------------------------------------------------------------
(* Hash of a world key: C25 *)

\* C25: the hash of a WorldKey is consistent with its equality: equal keys
\* have equal hashes; Name("foo") and Name("[async]foo") hash identically,
\* and a hash map holds at most one entry for the pair.
C25_HashConsistentWithEq ==
    /\ keq # <<>> /\ khash # <<>> /\ keq[1] => khash[1].a = khash[1].b
    /\ keq # <<>> /\ kmap # <<>> /\ keq[1] => Len(kmap[1]) = 1
    /\ khash # <<>> /\ ka = Name(Foo) /\ kb = Name(AsyncFoo) => khash[1].a = khash[1].b
    /\ kmap # <<>> /\ ka = Name(Foo) /\ kb = Name(AsyncFoo) =>
          kmap[1] = <<[key |-> Name(Foo), item |-> "second"]>>

\* C25 witness: foo and [async]foo were compared, hashed and inserted into one map
C25_Witness ==
    /\ ka = Name(Foo)
    /\ kb = Name(AsyncFoo)
    /\ keq = <<TRUE>>
    /\ khash # <<>>
    /\ kmap # <<>>
    /\ Len(kmap[1]) = 1

----------------------------------------------------------------------------
(* Futures and streams, one entry per occurrence: C26 *)

\* how often the future or stream u occurs in type ty, expanded through
\* every kind but handles, resources, flags and enums
RECURSIVE Occurrences(_, _, _)
RECURSIVE OccurrencesIn(_, _, _)
Occurrences(types, ty, u) ==
    IF ty.prim # "id" THEN 0
    ELSE LET kind == At(types, ty.id).kind IN
         IF kind.tag \in {"Resource", "Handle", "Flags", "Enum"} THEN 0
         ELSE OccurrencesIn(types, kind.tys, u)
              + (IF ty.id = u /\ kind.tag \in {"Future", "Stream"} THEN 1 ELSE 0)

OccurrencesIn(types, tys, u) ==
    IF tys = <<>> THEN 0
    ELSE Occurrences(types, Head(tys), u) + OccurrencesIn(types, Tail(tys), u)

CountOf(s, u) == Cardinality({i \in 1..Len(s) : s[i] = u})

\* C26: find_futures_and_streams does not deduplicate: its result has one
\* entry per occurrence of a future or stream in the expanded signature, a
\* future used by two parameters appears twice, and every entry is the id of
\* a Future or Stream type definition.
C26_FuturesNotDeduplicated ==
    futures # NotSearched =>
        LET out == futures[1] IN
        /\ \A u \in Ids(ftypes) :
              CountOf(out, u) = OccurrencesIn(ftypes, fparams \o fresult, u)
        /\ \A i \in 1..Len(out) :
              At(ftypes, out[i]).kind.tag \in {"Future", "Stream"}
        /\ fparams = <<TId(0), TId(0)>> /\ fresult = <<>> => out = <<0, 0>>

\* C26 witness: future<u32> is the type of both params and is listed twice;
\* tuple<future<u32>, future<u32>> as the result adds two more
C26_Witness ==
    /\ fparams = <<TId(0), TId(0)>>
    /\ fresult = <<TId(11)>>
    /\ futures = << <<0, 0, 0, 0>> >>

----------------------------------------------------------------------------
(* The track of a track: C27 *)

\* C27: version_compat_track is idempotent, and the track it returns always
\* has empty build metadata.  tv2 ranges over the tracks too, so the track of
\* the track of tv1 is tr2 in the states where tv2 is tr1.
C27_TrackIdempotent ==
    tr1 # NoVersion =>
        /\ tr1.build = NoBuild
        /\ tr2.build = NoBuild
        /\ tv2 = tr1 => tr2 = tr1

\* C27 witness: 1.2.1+b1 has the track 1.0.0, and the track of 1.0.0 is 1.0.0
C27_Witness ==
    /\ tv1 = Version(1, 2, 1, NoPre, "b1")
    /\ tr1 = V(1, 0, 0)
    /\ tv2 = tr1
    /\ tr2 = tr1

----------------------------------------------------------------------------
(* wit-encoder ResourceFunc: C28 *)

\* C28: a ResourceFunc made by constructor() never acquires a name or a
\* result: after any sequence of setter calls its kind is Constructor and
\* result() is None, set_name and set_result having panicked; on a func made
\* by method() or static_(), set_result(r) followed by result() gives
\* Some(r), and set_name changes only the name.
C28_ConstructorHasNoNameOrResult ==
    /\ rorigin = "constructor" =>
          /\ rfunc.kind = [tag |-> "Constructor", name |-> "", async_ |-> FALSE,
                           result |-> <<>>]
          /\ Result(rfunc) = <<>>
          /\ rlast.name \in {"set_name", "set_result"} =>
                rlast.panicked /\ rfunc = rprev
    /\ rorigin \in {"method", "static_"} =>
          /\ rfunc.kind.tag = (IF rorigin = "method" THEN "Method" ELSE "Static")
          /\ ~rlast.panicked
          /\ rlast.name = "set_result" =>
                /\ Result(rfunc) = <<rlast.result>>
                /\ rfunc = [rprev EXCEPT !.kind.result = rlast.result]
          /\ rlast.name = "set_name" =>
                /\ rfunc.kind.name = rlast.ident
                /\ rfunc = [rprev EXCEPT !.kind.name = rlast.ident]

\* C28 witness: set_result panicked on a constructor that had params and docs set
C28_Witness ==
    /\ rorigin = "constructor"
    /\ rlast.name = "set_result"
    /\ rlast.panicked
    /\ rfunc.params # <<>>
    /\ rfunc.docs # <<>>

====
